---- MODULE Spec2Model ----
(***************************************************************************)
(* A model of the resource-resolution core of the skill library: the Skill *)
(* facade (UseScript, AutoExecute), the markup extractor, and the resource *)
(* providers (inline, composite, caching, lazy-loading).                    *)
(*                                                                         *)
(* Each component has its own specification over its own variables; the    *)
(* variables of the other components are held at their initial value.      *)
(***************************************************************************)
EXTENDS Naturals, Sequences, FiniteSets, TLC

VARIABLES
    skill,      \* the Skill under test: Body, Scripts, Provider
    prov,       \* the InlineProvider object a Skill may have attached
    skillRet,   \* what the last call on the Skill returned, and what it ran
    lazy,       \* the LazyLoadingProvider: provider, initialized
    loadCount,  \* how often the lazy provider's factory has been invoked
    loadFails,  \* how many of these invocations failed
    lazyCalls,  \* how many sequential accesses the lazy provider has served
    lazyRet,    \* what the last sequential call on the lazy provider returned
    thr,        \* concurrent callers of the lazy provider: pc and locals
    comp,       \* the CompositeProvider: its ordered list of delegates
    compRet,    \* what the last call on the composite provider returned
    cache,      \* the CachingProvider: its three caches
    deleg,      \* the delegate behind the CachingProvider
    hist,       \* bookkeeping of delegate calls and first values per key
    cacheRet,   \* what the last call on the caching provider returned
    text,       \* the body handed to the markup extractor
    nPieces,    \* the number of pieces the body was put together from
    markRet,    \* what the last call of the markup extractor returned
    refSkill,   \* a Skill with references: References, Provider
    refProv,    \* the InlineProvider object that Skill may have attached
    refRet,     \* what the last ReadReference returned
    ccache,     \* the caches of a CachingProvider used by concurrent callers
    cthr,       \* these callers: pc and locals
    cfatal,     \* the runtime has stopped the program on a concurrent map access
    cseen,      \* the values the delegate returned, and the last value written, per key
    runRet,     \* what the last Run of a generic procedure did and returned
    remote,     \* a RemoteScript: Name and Client
    wire,       \* the calls the transport has received, oldest first
    remRet,     \* what the last Run of the RemoteScript or Call of the transport returned
    fskill,     \* a Skill as a caller may construct it: Metadata, Body, Scripts
    flazy,      \* a LazyLoadingProvider whose loader may return any (provider, error)
    facRet,     \* what the last operation on them did: returned, or aborted
    mgr,        \* a SkillManager: whether it has a store, cache, providers
    mstore,     \* the store: the version it holds of each skill, 0 for none
    mobjs,      \* the number of Skill objects made so far
    mhist,      \* per name, the object the last GetSkill and the last ReloadSkill returned
    mgrRet,     \* what the last operation of the manager returned
    smap,       \* the MemoryStore's map: per caller's name, the skill stored under it, 0 for none
    smu,        \* the MemoryStore's RWMutex: the caller holding it for writing, the number of readers
    sthr,       \* the concurrent callers of Put: pc and the error returned
    srd,        \* a concurrent caller of GetAll: pc and the last snapshot it was given
    sfatal,     \* the runtime has stopped the program on a concurrent map access
    cheap,      \* the SkillMetadata objects and the list elements that Skills point to, per address
    cheld,      \* the Skill object in the caller's hands
    cstored,    \* the Skill object a MemoryStore holds, if any
    cput,       \* the contents of the skill at the time of the last Put, and whether an object it points to was written since
    cpRet,      \* what the last operation on the store returned
    hclient,    \* an HTTPRemoteScriptClient: the Timeout of its HTTPClient, in ticks
    hcall,      \* a Call of it: where it is, its context, the time left, what it returned
    cm,         \* a SkillManager used by concurrent callers: the cached Skill object and the provider configured, for one name
    cmstore,    \* whether its store holds the skill of that name
    cmu,        \* the caller that holds the manager's mutex, 0 for none
    cmthr,      \* the concurrent callers of the manager: pc and locals
    cmlog,      \* bookkeeping: calls begun, objects made, objects GetSkill returned, whether other operations ran
    cmfatal,    \* the runtime has stopped the program on a concurrent map access
    pskill,     \* a Skill and its parse cache: Body, parsedTags, parsed
    parseRet    \* what the last operation on that Skill returned

skillVars == <<skill, prov, skillRet>>
lazyVars  == <<lazy, loadCount, loadFails, lazyCalls, lazyRet, thr>>
compVars  == <<comp, compRet>>
cacheVars == <<cache, deleg, hist, cacheRet>>
markVars  == <<text, nPieces, markRet>>
refVars   == <<refSkill, refProv, refRet>>
concVars  == <<ccache, cthr, cfatal, cseen>>
runVars   == <<runRet>>
remVars   == <<remote, wire, remRet>>
facVars   == <<fskill, flazy, facRet>>
mgrVars   == <<mgr, mstore, mobjs, mhist, mgrRet>>
stoVars   == <<smap, smu, sthr, srd, sfatal>>
cpVars    == <<cheap, cheld, cstored, cput, cpRet>>
httpVars  == <<hclient, hcall>>
mcVars    == <<cm, cmstore, cmu, cmthr, cmlog, cmfatal>>
parseVars == <<pskill, parseRet>>
notSkill  == <<lazyVars, compVars, cacheVars, markVars, refVars, concVars, runVars, remVars, facVars, mgrVars, stoVars, cpVars, httpVars, mcVars, parseVars>>
notLazy   == <<skillVars, compVars, cacheVars, markVars, refVars, concVars, runVars, remVars, facVars, mgrVars, stoVars, cpVars, httpVars, mcVars, parseVars>>
notComp   == <<skillVars, lazyVars, cacheVars, markVars, refVars, concVars, runVars, remVars, facVars, mgrVars, stoVars, cpVars, httpVars, mcVars, parseVars>>
notCache  == <<skillVars, lazyVars, compVars, markVars, refVars, concVars, runVars, remVars, facVars, mgrVars, stoVars, cpVars, httpVars, mcVars, parseVars>>
notMark   == <<skillVars, lazyVars, compVars, cacheVars, refVars, concVars, runVars, remVars, facVars, mgrVars, stoVars, cpVars, httpVars, mcVars, parseVars>>
notRef    == <<skillVars, lazyVars, compVars, cacheVars, markVars, concVars, runVars, remVars, facVars, mgrVars, stoVars, cpVars, httpVars, mcVars, parseVars>>
notConc   == <<skillVars, lazyVars, compVars, cacheVars, markVars, refVars, runVars, remVars, facVars, mgrVars, stoVars, cpVars, httpVars, mcVars, parseVars>>
notRun    == <<skillVars, lazyVars, compVars, cacheVars, markVars, refVars, concVars, remVars, facVars, mgrVars, stoVars, cpVars, httpVars, mcVars, parseVars>>
notRem    == <<skillVars, lazyVars, compVars, cacheVars, markVars, refVars, concVars, runVars, facVars, mgrVars, stoVars, cpVars, httpVars, mcVars, parseVars>>
notFac    == <<skillVars, lazyVars, compVars, cacheVars, markVars, refVars, concVars, runVars, remVars, mgrVars, stoVars, cpVars, httpVars, mcVars, parseVars>>
notMgr    == <<skillVars, lazyVars, compVars, cacheVars, markVars, refVars, concVars, runVars, remVars, facVars, stoVars, cpVars, httpVars, mcVars, parseVars>>
notSto    == <<skillVars, lazyVars, compVars, cacheVars, markVars, refVars, concVars, runVars, remVars, facVars, mgrVars, cpVars, httpVars, mcVars, parseVars>>
notCp     == <<skillVars, lazyVars, compVars, cacheVars, markVars, refVars, concVars, runVars, remVars, facVars, mgrVars, stoVars, httpVars, mcVars, parseVars>>
notHttp   == <<skillVars, lazyVars, compVars, cacheVars, markVars, refVars, concVars, runVars, remVars, facVars, mgrVars, stoVars, cpVars, mcVars, parseVars>>
notMc     == <<skillVars, lazyVars, compVars, cacheVars, markVars, refVars, concVars, runVars, remVars, facVars, mgrVars, stoVars, cpVars, httpVars, parseVars>>
notParse  == <<skillVars, lazyVars, compVars, cacheVars, markVars, refVars, concVars, runVars, remVars, facVars, mgrVars, stoVars, cpVars, httpVars, mcVars>>
vars      == <<skill, prov, skillRet, lazy, loadCount, loadFails, lazyCalls, lazyRet, thr,
               comp, compRet, cache, deleg, hist, cacheRet, text, nPieces, markRet,
               refSkill, refProv, refRet, ccache, cthr, cfatal, cseen,
               runRet,
               remote, wire, remRet,
               fskill, flazy, facRet,
               mgr, mstore, mobjs, mhist, mgrRet,
               smap, smu, sthr, srd, sfatal,
               cheap, cheld, cstored, cput, cpRet,
               hclient, hcall,
               cm, cmstore, cmu, cmthr, cmlog, cmfatal,
               pskill, parseRet>>

(***************************************************************************)
(* Bounds of the model.                                                    *)
(***************************************************************************)
MaxScripts == 2
MaxSegs == 2
MaxLazyCalls == 4
NumThreads == 2
MaxDelegates == 3
MaxCacheOps == 5
MaxPieces == 3
MaxBodyLen == 7
MaxRefs == 3

(***************************************************************************)
(* Text.  A body is a sequence of tokens: the six markers, single          *)
(* characters, and a stray "<".  A name is a sequence of characters.       *)
(***************************************************************************)
Kinds == {"script", "reference", "asset"}

OpenTag(kind) == "<" \o kind \o ">"
CloseTag(kind) == "</" \o kind \o ">"

OpenTokens == {OpenTag(k) : k \in Kinds}
CloseTokens == {CloseTag(k) : k \in Kinds}

\* the tokens that contain the character "<"
LtTokens == OpenTokens \cup CloseTokens \cup {"<"}

KindOfOpen(tok) == CHOOSE k \in Kinds : OpenTag(k) = tok

NameA == <<"a">>
NameB == <<"b">>
Names == {NameA, NameB}
Args == {"{}", "{\"x\":1}"}

\* a possibly-nil slice
NilSlice == [isNil |-> TRUE, elems |-> <<>>]
Slice(s) == [isNil |-> FALSE, elems |-> s]

RECURSIVE TrimLeft(_)
TrimLeft(s) ==
    IF s # <<>> /\ Head(s) = " " THEN TrimLeft(Tail(s)) ELSE s

RECURSIVE TrimRight(_)
TrimRight(s) ==
    IF s # <<>> /\ s[Len(s)] = " " THEN TrimRight(SubSeq(s, 1, Len(s) - 1)) ELSE s

TrimSpace(s) == TrimRight(TrimLeft(s))

\* the first index >= i of a token containing "<", or Len(body) + 1
RECURSIVE NextLt(_, _)
NextLt(body, i) ==
    IF i > Len(body) THEN i
    ELSE IF body[i] \in LtTokens THEN i
    ELSE NextLt(body, i + 1)

\* the pattern <(script|reference|asset)>([^<]+)</(script|reference|asset)>
\* matches at i, ending at MatchEnd(body, i)
MatchEnd(body, i) == NextLt(body, i + 1)
MatchesAt(body, i) ==
    /\ body[i] \in OpenTokens
    /\ LET j == MatchEnd(body, i) IN
         /\ j >= i + 2
         /\ j <= Len(body)
         /\ body[j] \in CloseTokens

\* FindAllStringSubmatch: leftmost non-overlapping matches, as XMLTag values
RECURSIVE FindAllTags(_, _)
FindAllTags(body, i) ==
    IF i > Len(body) THEN <<>>
    ELSE IF MatchesAt(body, i)
         THEN LET j == MatchEnd(body, i) IN
              <<[TagName |-> KindOfOpen(body[i]),
                 Content |-> TrimSpace(SubSeq(body, i + 1, j - 1))]>>
              \o FindAllTags(body, j + 1)
         ELSE FindAllTags(body, i + 1)

ParseXMLTags(body) ==
    IF body = <<>> THEN NilSlice
    ELSE LET matches == FindAllTags(body, 1) IN
         IF matches = <<>> THEN NilSlice ELSE Slice(matches)

\* a filter that keeps a name once
RECURSIVE ContentsOfKindOnce(_, _)
ContentsOfKindOnce(tags, kind) ==
    IF tags = <<>> THEN <<>>
    ELSE LET rest == ContentsOfKindOnce(Tail(tags), kind) IN
         (IF Head(tags).TagName = kind
             /\ \A i \in 1 .. Len(rest) : rest[i] # Head(tags).Content
          THEN <<Head(tags).Content>> ELSE <<>>) \o rest

RECURSIVE ContentsOfKind(_, _)
ContentsOfKind(tags, kind) ==
    IF tags = <<>> THEN <<>>
    ELSE (IF Head(tags).TagName = kind THEN <<Head(tags).Content>> ELSE <<>>)
         \o ContentsOfKind(Tail(tags), kind)

\* a listing that is empty, not absent, where the body has other tags only
ExtractNamesEmpty(body, kind) ==
    LET tags == ParseXMLTags(body) IN
    IF tags.isNil THEN NilSlice
    ELSE Slice(ContentsOfKind(tags.elems, kind))

ExtractNames(body, kind) ==
    LET tags == ParseXMLTags(body) IN
    IF tags.isNil THEN NilSlice
    ELSE LET names == ContentsOfKind(tags.elems, kind) IN
         IF names = <<>> THEN NilSlice ELSE Slice(names)

ExtractScriptNames(body) == ExtractNames(body, "script")

HasXMLTags(body) == Len(ParseXMLTags(body).elems) > 0

EmbedScript(name) == <<OpenTag("script")>> \o name \o <<CloseTag("script")>>
EmbedReference(name) == <<OpenTag("reference")>> \o name \o <<CloseTag("reference")>>
EmbedAsset(name) == <<OpenTag("asset")>> \o name \o <<CloseTag("asset")>>

\* the pieces bodies are put together from: a script tag, a script tag with
\* blanks around the name, a reference tag
BodySegments ==
    {EmbedScript(NameA), EmbedScript(<<" ">> \o NameB \o <<" ">>), EmbedReference(NameA)}

NumOpenTags(body) == Cardinality({i \in 1 .. Len(body) : body[i] \in OpenTokens})

(***************************************************************************)
(* Scripts.  A script object has an identity, a name, and either succeeds  *)
(* with a result that depends on the object and the argument string, or    *)
(* fails with its own error.                                               *)
(***************************************************************************)
NoId == <<"none", 0>>
EmptyResult == [by |-> NoId, args |-> ""]
NilErr == [kind |-> "nil", name |-> <<>>, by |-> NoId]
Err(kind, name, by) == [kind |-> kind, name |-> name, by |-> by]

NewScript(origin, index, name, fails) ==
    [id |-> <<origin, index>>, name |-> name, fails |-> fails]

\* Script.Run: (result, err), and the invocation it makes
ScriptRun(script, args) ==
    IF script.fails
    THEN [result |-> EmptyResult, err |-> Err("app", script.name, script.id),
          runs |-> <<[id |-> script.id, args |-> args]>>]
    ELSE [result |-> [by |-> script.id, args |-> args], err |-> NilErr,
          runs |-> <<[id |-> script.id, args |-> args]>>]

NilScript == [id |-> NoId, name |-> <<>>, fails |-> FALSE]

\* the index of the first script named name at or after i, or 0
RECURSIVE ScanScripts(_, _, _)
ScanScripts(scripts, name, i) ==
    IF i > Len(scripts) THEN 0
    ELSE IF scripts[i].name = name THEN i
    ELSE ScanScripts(scripts, name, i + 1)

(***************************************************************************)
(* InlineProvider                                                          *)
(***************************************************************************)
NewInlineProvider == [Scripts |-> <<>>]

\* a scan that starts after the first script
InlineProviderGetScriptSkipFirst(p, name) ==
    LET i == ScanScripts(p.Scripts, name, 2) IN
    IF i # 0
    THEN [script |-> p.Scripts[i], err |-> NilErr]
    ELSE [script |-> NilScript, err |-> Err("script not found", name, NoId)]

InlineProviderGetScript(p, name) ==
    LET i == ScanScripts(p.Scripts, name, 1) IN
    IF i # 0
    THEN [script |-> p.Scripts[i], err |-> NilErr]
    ELSE [script |-> NilScript, err |-> Err("script not found", name, NoId)]

InlineProviderAddScript(p, script) ==
    [p EXCEPT !.Scripts = Append(p.Scripts, script)]

(***************************************************************************)
(* Skill                                                                   *)
(***************************************************************************)
SkillName == <<"s">>
CreateSkill == [Name |-> SkillName, Body |-> <<>>, Scripts |-> <<>>, Provider |-> "nil"]

\* a scan that keeps the last match instead of returning at the first
SkillUseScriptInlineLast(sk, name, args) ==
    LET hits == {i \in 1 .. Len(sk.Scripts) : sk.Scripts[i].name = name} IN
    IF hits # {}
    THEN ScriptRun(sk.Scripts[CHOOSE i \in hits : \A j \in hits : j <= i], args)
    ELSE [result |-> EmptyResult, err |-> Err("script not found", name, NoId),
          runs |-> <<>>]

\* a scan that falls back to the first script
SkillUseScriptInlineDefault(sk, name, args) ==
    LET i == ScanScripts(sk.Scripts, name, 1) IN
    IF i # 0
    THEN ScriptRun(sk.Scripts[i], args)
    ELSE IF sk.Scripts # <<>>
    THEN ScriptRun(sk.Scripts[1], args)
    ELSE [result |-> EmptyResult, err |-> Err("script not found", name, NoId),
          runs |-> <<>>]

\* the scan of the Skill's own Scripts
SkillUseScriptInline(sk, name, args) ==
    LET i == ScanScripts(sk.Scripts, name, 1) IN
    IF i # 0
    THEN ScriptRun(sk.Scripts[i], args)
    ELSE [result |-> EmptyResult, err |-> Err("script not found", name, NoId),
          runs |-> <<>>]

\* provider first, inline second
SkillUseScript(sk, p, name, args) ==
    LET found == InlineProviderGetScript(p, name) IN
    IF sk.Provider # "nil" /\ found.err = NilErr
    THEN ScriptRun(found.script, args)
    ELSE SkillUseScriptInline(sk, name, args)

GetScriptNames(sk) == ExtractScriptNames(sk.Body)

\* a loop that stops at the first script that fails
RECURSIVE AutoExecuteLoopAbort(_, _, _, _, _)
AutoExecuteLoopAbort(sk, p, names, i, args) ==
    IF i > Len(names) THEN [results |-> <<>>, runs |-> <<>>]
    ELSE LET r == SkillUseScript(sk, p, names[i], args)
             rest == IF r.err # NilErr
                     THEN [results |-> <<>>, runs |-> <<>>]
                     ELSE AutoExecuteLoopAbort(sk, p, names, i + 1, args)
         IN [results |-> <<[ScriptName |-> names[i], Result |-> r.result,
                            Error |-> r.err]>> \o rest.results,
             runs |-> r.runs \o rest.runs]

\* the loop of AutoExecute over scriptNames[i..]
RECURSIVE AutoExecuteLoop(_, _, _, _, _)
AutoExecuteLoop(sk, p, names, i, args) ==
    IF i > Len(names) THEN [results |-> <<>>, runs |-> <<>>]
    ELSE LET r == SkillUseScript(sk, p, names[i], args)
             rest == AutoExecuteLoop(sk, p, names, i + 1, args)
         IN [results |-> <<[ScriptName |-> names[i], Result |-> r.result,
                            Error |-> r.err]>> \o rest.results,
             runs |-> r.runs \o rest.runs]

SkillAutoExecute(sk, p, args) ==
    LET scriptNames == GetScriptNames(sk) IN
    IF scriptNames.isNil
    THEN [results |-> NilSlice, err |-> Err("no scripts found in body", <<>>, NoId),
          runs |-> <<>>]
    ELSE LET all == AutoExecuteLoop(sk, p, scriptNames.elems, 1, args) IN
         [results |-> Slice(all.results), err |-> NilErr, runs |-> all.runs]

\* a report that stops listing at the first failed script
RECURSIVE ExecuteLinesUntilError(_, _)
ExecuteLinesUntilError(results, i) ==
    IF i > Len(results) THEN <<>>
    ELSE <<[tag |-> "Script", index |-> i, name |-> results[i].ScriptName,
            result |-> EmptyResult, err |-> NilErr]>>
         \o (IF results[i].Error # NilErr
             THEN <<[tag |-> "Error", index |-> i, name |-> <<>>,
                     result |-> EmptyResult, err |-> results[i].Error]>>
             ELSE <<[tag |-> "Result", index |-> i, name |-> <<>>,
                     result |-> results[i].Result, err |-> NilErr]>>
                  \o ExecuteLinesUntilError(results, i + 1))

\* the lines Execute writes for results[i..]: "[i] Script: name", then
\* "Error: err" or "Result: result"
RECURSIVE ExecuteLines(_, _)
ExecuteLines(results, i) ==
    IF i > Len(results) THEN <<>>
    ELSE <<[tag |-> "Script", index |-> i, name |-> results[i].ScriptName,
            result |-> EmptyResult, err |-> NilErr]>>
         \o (IF results[i].Error # NilErr
             THEN <<[tag |-> "Error", index |-> i, name |-> <<>>,
                     result |-> EmptyResult, err |-> results[i].Error]>>
             ELSE <<[tag |-> "Result", index |-> i, name |-> <<>>,
                     result |-> results[i].Result, err |-> NilErr]>>)
         \o ExecuteLines(results, i + 1)

\* Skill.Execute: the report as its sequence of lines
SkillExecute(sk, p, args) ==
    LET r == SkillAutoExecute(sk, p, args) IN
    IF r.err # NilErr
    THEN [output |-> <<>>, err |-> r.err, runs |-> r.runs]
    ELSE [output |-> <<[tag |-> "Skill", index |-> 0, name |-> sk.Name,
                        result |-> EmptyResult, err |-> NilErr]>>
                     \o ExecuteLines(r.results.elems, 1),
          err |-> NilErr, runs |-> r.runs]

NoCall ==
    [op |-> "none", name |-> <<>>, args |-> "", result |-> EmptyResult,
     err |-> NilErr, results |-> NilSlice, runs |-> <<>>, output |-> <<>>]

SkillIdle ==
    /\ skill = CreateSkill
    /\ prov = NewInlineProvider
    /\ skillRet = NoCall

\* core.WithScript
WithScript(name, fails) ==
    /\ Len(skill.Scripts) + Len(prov.Scripts) < MaxScripts
    /\ skill' = [skill EXCEPT !.Scripts =
                    Append(@, NewScript("inline", Len(@) + 1, name, fails))]
    /\ skillRet' = NoCall
    /\ UNCHANGED <<prov, notSkill>>

\* core.WithBody
WithBody(body) ==
    /\ NumOpenTags(body) <= MaxSegs
    /\ skill' = [skill EXCEPT !.Body = body]
    /\ skillRet' = NoCall
    /\ UNCHANGED <<prov, notSkill>>

\* core.WithResourceProvider
WithResourceProvider(p) ==
    /\ skill' = [skill EXCEPT !.Provider = p]
    /\ skillRet' = NoCall
    /\ UNCHANGED <<prov, notSkill>>

\* InlineProvider.AddScript on the provider object
ProviderAddScript(name, fails) ==
    /\ Len(skill.Scripts) + Len(prov.Scripts) < MaxScripts
    /\ prov' = InlineProviderAddScript(prov,
                   NewScript("provider", Len(prov.Scripts) + 1, name, fails))
    /\ skillRet' = NoCall
    /\ UNCHANGED <<skill, notSkill>>

UseScript(name, args) ==
    /\ LET r == SkillUseScript(skill, prov, name, args) IN
         skillRet' = [op |-> "UseScript", name |-> name, args |-> args,
                      result |-> r.result, err |-> r.err, results |-> NilSlice,
                      runs |-> r.runs, output |-> <<>>]
    /\ UNCHANGED <<skill, prov, notSkill>>

AutoExecute(args) ==
    /\ LET r == SkillAutoExecute(skill, prov, args) IN
         skillRet' = [op |-> "AutoExecute", name |-> <<>>, args |-> args,
                      result |-> EmptyResult, err |-> r.err, results |-> r.results,
                      runs |-> r.runs, output |-> <<>>]
    /\ UNCHANGED <<skill, prov, notSkill>>

Execute(args) ==
    /\ LET r == SkillExecute(skill, prov, args) IN
         skillRet' = [op |-> "Execute", name |-> <<>>, args |-> args,
                      result |-> EmptyResult, err |-> r.err, results |-> NilSlice,
                      runs |-> r.runs, output |-> r.output]
    /\ UNCHANGED <<skill, prov, notSkill>>

\* the pieces of the bodies AutoExecute and Execute are run on: script tags,
\* a reference tag, an asset tag, a character of plain text
ExecPieces ==
    {EmbedScript(NameA), EmbedScript(NameB), EmbedReference(NameA), EmbedAsset(NameA),
     <<"x">>}

\* core.WithBody with a body of at most MaxBodyLen tokens
WithBodyText(body) ==
    /\ Len(body) <= MaxBodyLen
    /\ skill' = [skill EXCEPT !.Body = body]
    /\ skillRet' = NoCall
    /\ UNCHANGED <<prov, notSkill>>

SkillExecNext ==
    \/ \E n \in Names, f \in BOOLEAN : WithScript(n, f)
    \/ \E s \in ExecPieces : WithBodyText(skill.Body \o s)
    \/ \E a \in Args : AutoExecute(a)
    \/ \E a \in Args : Execute(a)

SkillNext ==
    \/ \E n \in Names, f \in BOOLEAN : WithScript(n, f)
    \/ \E s \in BodySegments : WithBody(skill.Body \o s)
    \/ \E p \in {"nil", "inline"} : WithResourceProvider(p)
    \/ \E n \in Names, f \in BOOLEAN : ProviderAddScript(n, f)
    \/ \E n \in Names, a \in Args : UseScript(n, a)
    \/ \E a \in Args : AutoExecute(a)


(***************************************************************************)
(* Properties of the Skill facade                                          *)
(***************************************************************************)
ProviderDefines(name) == \E i \in 1 .. Len(prov.Scripts) : prov.Scripts[i].name = name
InlineDefines(name) == \E i \in 1 .. Len(skill.Scripts) : skill.Scripts[i].name = name

\* the first script of a list that has the name
FirstNamed(scripts, name) ==
    scripts[CHOOSE i \in 1 .. Len(scripts) :
               /\ scripts[i].name = name
               /\ \A j \in 1 .. i - 1 : scripts[j].name # name]

\* the last call ran exactly this script, once, with the call's argument
\* string, and returned what the script returned
RanOnly(script) ==
    /\ skillRet.runs = <<[id |-> script.id, args |-> skillRet.args]>>
    /\ IF script.fails
       THEN skillRet.result = EmptyResult /\ skillRet.err = Err("app", script.name, script.id)
       ELSE skillRet.result = [by |-> script.id, args |-> skillRet.args]
            /\ skillRet.err = NilErr

C2_InlineFallback ==
    (/\ skillRet.op = "UseScript"
     /\ (skill.Provider = "nil" \/ ~ProviderDefines(skillRet.name))
     /\ InlineDefines(skillRet.name))
    => RanOnly(FirstNamed(skill.Scripts, skillRet.name))

\* C2 witness: an attached provider that does not define the name, two
\* inline scripts of the called name with different outcomes, and the call
\* was served by the first of them.
C2_Witness ==
    /\ skillRet.op = "UseScript"
    /\ skill.Provider # "nil"
    /\ ~ProviderDefines(skillRet.name)
    /\ Len(skill.Scripts) = 2
    /\ skill.Scripts[1].name = skillRet.name
    /\ skill.Scripts[2].name = skillRet.name
    /\ skill.Scripts[1].fails # skill.Scripts[2].fails
    /\ skillRet.runs = <<[id |-> skill.Scripts[1].id, args |-> skillRet.args]>>

\* C13: UseScript for a name that neither the attached provider nor the
\* inline list defines fails with script-not-found carrying the name, returns
\* the empty result and runs nothing.
C13_ScriptNotFound ==
    (/\ skillRet.op = "UseScript"
     /\ ~(skill.Provider # "nil" /\ ProviderDefines(skillRet.name))
     /\ ~InlineDefines(skillRet.name))
    => /\ skillRet.err = Err("script not found", skillRet.name, NoId)
       /\ skillRet.result = EmptyResult
       /\ skillRet.runs = <<>>

\* C13 witness: a provider is attached, it and the inline list define
\* another name, and the lookup of the name failed.
C13_Witness ==
    /\ skillRet.op = "UseScript"
    /\ skill.Provider # "nil"
    /\ Len(prov.Scripts) = 1
    /\ Len(skill.Scripts) = 1
    /\ ~ProviderDefines(skillRet.name)
    /\ ~InlineDefines(skillRet.name)
    /\ skillRet.err = Err("script not found", skillRet.name, NoId)

\* what UseScript does for the i-th extracted name, with the arguments of
\* the last call
OutcomeOf(i) ==
    SkillUseScript(skill, prov, GetScriptNames(skill).elems[i], skillRet.args)

\* the number of scripts run for the first i extracted names
RunsBefore(i) == Cardinality({j \in 1 .. i : OutcomeOf(j).runs # <<>>})

\* C10: for a body with extracted script names n1..nk, k >= 1, AutoExecute
\* returns no error and k outcomes; the i-th has name ni and the result and
\* error of UseScript(ni) with the same arguments; the scripts run are, in
\* extraction order, those that the names resolve to, one run per occurrence,
\* whatever the outcome of the earlier ones.
C10_AutoExecuteOutcomes ==
    (skillRet.op = "AutoExecute" /\ ~GetScriptNames(skill).isNil)
    => LET names == GetScriptNames(skill).elems
           k == Len(names)
       IN /\ k >= 1
          /\ skillRet.err = NilErr
          /\ ~skillRet.results.isNil
          /\ Len(skillRet.results.elems) = k
          /\ \A i \in 1 .. k :
               /\ skillRet.results.elems[i].ScriptName = names[i]
               /\ skillRet.results.elems[i].Result = OutcomeOf(i).result
               /\ skillRet.results.elems[i].Error = OutcomeOf(i).err
          /\ Len(skillRet.runs) = RunsBefore(k)
          /\ \A i \in 1 .. k :
               OutcomeOf(i).runs # <<>>
               => skillRet.runs[RunsBefore(i)] = OutcomeOf(i).runs[1]

\* C10 witness: two outcomes, the first the failure of a script that ran,
\* the second the same name again, run a second time.
C10_Witness ==
    /\ skillRet.op = "AutoExecute"
    /\ ~skillRet.results.isNil
    /\ Len(skillRet.results.elems) = 2
    /\ skillRet.results.elems[1].Error.kind = "app"
    /\ skillRet.results.elems[2].ScriptName = skillRet.results.elems[1].ScriptName
    /\ skillRet.results.elems[2].Error = skillRet.results.elems[1].Error
    /\ Len(skillRet.runs) = 2
    /\ skillRet.runs[2] = skillRet.runs[1]


(***************************************************************************)
(* LazyLoadingProvider.  The factory (loader) returns, on success, a fresh *)
(* provider, named by the number of the invocation that made it; 0 is nil. *)
(* A loaded provider defines NameA for each kind and nothing else.         *)
(***************************************************************************)
LazyOps == {"GetScript", "GetReference", "GetAsset",
            "ListScripts", "ListReferences", "ListAssets"}
GetOps == {"GetScript", "GetReference", "GetAsset"}

NoValue == [op |-> "none", name |-> <<>>, by |-> 0]

NewLazyLoadingProvider == [provider |-> 0, initialized |-> FALSE]

\* the loader: (provider, err) of the invocation after count earlier ones
Loader(count, outcome) ==
    IF outcome = "ok"
    THEN [provider |-> count + 1, err |-> NilErr]
    ELSE [provider |-> 0, err |-> Err("loader failed", <<>>, NoId)]

\* an init that stores the provider and forgets to set initialized
LazyInitNoMark(p, count, outcome) ==
    IF p.initialized
    THEN [p |-> p, invoked |-> FALSE, err |-> NilErr]
    ELSE IF Loader(count, outcome).err # NilErr
         THEN [p |-> p, invoked |-> TRUE,
               err |-> Err("failed to load provider", <<>>, NoId)]
         ELSE [p |-> [provider |-> Loader(count, outcome).provider,
                      initialized |-> FALSE],
               invoked |-> TRUE, err |-> NilErr]

\* an init that sets initialized before it looks at the loader's error
LazyInitMarkFirst(p, count, outcome) ==
    IF p.initialized
    THEN [p |-> p, invoked |-> FALSE, err |-> NilErr]
    ELSE IF Loader(count, outcome).err # NilErr
         THEN [p |-> [p EXCEPT !.initialized = TRUE], invoked |-> TRUE,
               err |-> Err("failed to load provider", <<>>, NoId)]
         ELSE [p |-> [provider |-> Loader(count, outcome).provider,
                      initialized |-> TRUE],
               invoked |-> TRUE, err |-> NilErr]

\* LazyLoadingProvider.init: the wrapper afterwards, whether the loader was
\* invoked, and the error returned
LazyInit(p, count, outcome) ==
    IF p.initialized
    THEN [p |-> p, invoked |-> FALSE, err |-> NilErr]
    ELSE IF Loader(count, outcome).err # NilErr
         THEN [p |-> p, invoked |-> TRUE,
               err |-> Err("failed to load provider", <<>>, NoId)]
         ELSE [p |-> [provider |-> Loader(count, outcome).provider,
                      initialized |-> TRUE],
               invoked |-> TRUE, err |-> NilErr]

\* an operation of the loaded provider number id
LoadedCall(id, op, name) ==
    IF op \in GetOps
    THEN IF name = NameA
         THEN [val |-> [op |-> op, name |-> name, by |-> id], names |-> NilSlice,
               err |-> NilErr, servedBy |-> id]
         ELSE [val |-> NoValue, names |-> NilSlice,
               err |-> Err("not found", name, NoId), servedBy |-> id]
    ELSE [val |-> NoValue, names |-> Slice(<<NameA>>), err |-> NilErr,
          servedBy |-> id]

\* the six operations of LazyLoadingProvider: init, then the stored provider
LazyCall(p, count, outcome, op, name) ==
    LET i == LazyInit(p, count, outcome) IN
    IF i.err # NilErr
    THEN [p |-> i.p, invoked |-> i.invoked,
          ret |-> [val |-> NoValue, names |-> NilSlice, err |-> i.err, servedBy |-> 0]]
    ELSE [p |-> i.p, invoked |-> i.invoked,
          ret |-> LoadedCall(i.p.provider, op, name)]

NoLazyCall ==
    [op |-> "none", name |-> <<>>, val |-> NoValue, names |-> NilSlice,
     err |-> NilErr, servedBy |-> 0, invoked |-> FALSE]

Threads == 1 .. NumThreads

IdleThread == [pc |-> "idle", op |-> "none", name |-> <<>>, loaded |-> 0,
               pending |-> {}, err |-> NilErr, servedBy |-> 0]

LazyIdle ==
    /\ lazy = NewLazyLoadingProvider
    /\ loadCount = 0
    /\ loadFails = 0
    /\ lazyCalls = 0
    /\ lazyRet = NoLazyCall
    /\ thr = [t \in Threads |-> IdleThread]

OpName(op, name) == IF op \in GetOps THEN name ELSE <<>>

\* one sequential access: any of the six operations
LazyAccess(op, name, outcome) ==
    /\ lazyCalls < MaxLazyCalls
    /\ LET c == LazyCall(lazy, loadCount, outcome, op, OpName(op, name)) IN
         /\ lazy' = c.p
         /\ loadCount' = IF c.invoked THEN loadCount + 1 ELSE loadCount
         /\ loadFails' = IF c.invoked /\ outcome # "ok" THEN loadFails + 1 ELSE loadFails
         /\ lazyRet' = [op |-> op, name |-> OpName(op, name), val |-> c.ret.val,
                        names |-> c.ret.names, err |-> c.ret.err,
                        servedBy |-> c.ret.servedBy, invoked |-> c.invoked]
    /\ lazyCalls' = lazyCalls + 1
    /\ UNCHANGED <<thr, notLazy>>

LazyNext ==
    \E op \in LazyOps, n \in Names, o \in {"ok", "fail"} : LazyAccess(op, n, o)


(***************************************************************************)
(* Concurrent callers of one LazyLoadingProvider.  init takes no lock, so  *)
(* its reads and writes of initialized and provider interleave freely, and *)
(* its two unsynchronised writes may become visible in either order.       *)
(***************************************************************************)
\* a caller enters one of the six operations
ThreadBegin(t, op, name) ==
    /\ thr[t].pc = "idle"
    /\ thr' = [thr EXCEPT ![t] = [IdleThread EXCEPT !.pc = "check", !.op = op,
                                                     !.name = OpName(op, name)]]
    /\ UNCHANGED <<lazy, loadCount, loadFails, lazyCalls, lazyRet, notLazy>>

\* if p.initialized { return nil }
ThreadCheck(t) ==
    /\ thr[t].pc = "check"
    /\ thr' = [thr EXCEPT ![t].pc = IF lazy.initialized THEN "delegate" ELSE "load"]
    /\ UNCHANGED <<lazy, loadCount, loadFails, lazyCalls, lazyRet, notLazy>>

\* provider, err := p.loader(ctx)
ThreadLoad(t, outcome) ==
    /\ thr[t].pc = "load"
    /\ loadCount' = loadCount + 1
    /\ loadFails' = IF outcome = "ok" THEN loadFails ELSE loadFails + 1
    /\ thr' = [thr EXCEPT ![t] =
                 IF Loader(loadCount, outcome).err # NilErr
                 THEN [@ EXCEPT !.pc = "done",
                                !.err = Err("failed to load provider", <<>>, NoId)]
                 ELSE [@ EXCEPT !.pc = "store",
                                !.loaded = Loader(loadCount, outcome).provider,
                                !.pending = {"provider", "initialized"}]]
    /\ UNCHANGED <<lazy, lazyCalls, lazyRet, notLazy>>

\* p.provider = provider; p.initialized = true
ThreadStore(t, field) ==
    /\ thr[t].pc = "store"
    /\ field \in thr[t].pending
    /\ lazy' = IF field = "provider"
               THEN [lazy EXCEPT !.provider = thr[t].loaded]
               ELSE [lazy EXCEPT !.initialized = TRUE]
    /\ thr' = [thr EXCEPT ![t].pending = @ \ {field},
                          ![t].pc = IF thr[t].pending = {field} THEN "delegate" ELSE "store"]
    /\ UNCHANGED <<loadCount, loadFails, lazyCalls, lazyRet, notLazy>>

\* return p.provider.Op(...): a nil provider is a nil dereference
ThreadDelegate(t) ==
    /\ thr[t].pc = "delegate"
    /\ thr' = [thr EXCEPT ![t].pc = "done",
                          ![t].servedBy = lazy.provider,
                          ![t].err = IF lazy.provider = 0
                                     THEN Err("nil dereference", <<>>, NoId)
                                     ELSE LoadedCall(lazy.provider, thr[t].op, thr[t].name).err]
    /\ UNCHANGED <<lazy, loadCount, loadFails, lazyCalls, lazyRet, notLazy>>

LazyConcNext ==
    \/ \E t \in Threads, op \in LazyOps, n \in Names : ThreadBegin(t, op, n)
    \/ \E t \in Threads : ThreadCheck(t)
    \/ \E t \in Threads, o \in {"ok", "fail"} : ThreadLoad(t, o)
    \/ \E t \in Threads, f \in {"provider", "initialized"} : ThreadStore(t, f)
    \/ \E t \in Threads : ThreadDelegate(t)


(***************************************************************************)
(* Properties of the LazyLoadingProvider                                   *)
(***************************************************************************)
\* C3: with a factory that succeeds, concurrent first accesses invoke the
\* factory at most once in total, under every interleaving.
C3_FactoryAtMostOnce == loadFails = 0 => loadCount <= 1

\* C4: construction does not invoke the factory; while the factory has not
\* failed, after N >= 1 sequential accesses it has been invoked exactly once,
\* by the first access, and the last access was served by the provider that
\* invocation returned, which is the one stored.
C4_LoadedOnceOnFirstAccess ==
    loadFails = 0
    => /\ lazyCalls = 0 => loadCount = 0 /\ ~lazy.initialized /\ lazy.provider = 0
       /\ lazyCalls >= 1 =>
            /\ loadCount = 1
            /\ lazy.initialized
            /\ lazy.provider = 1
            /\ lazyRet.err # Err("failed to load provider", <<>>, NoId)
            /\ lazyRet.servedBy = 1
            /\ lazyRet.invoked <=> lazyCalls = 1

\* C4 witness: the fourth access, a listing, after a lookup-triggered load.
C4_Witness ==
    /\ loadFails = 0
    /\ lazyCalls = MaxLazyCalls
    /\ lazyRet.op = "ListAssets"
    /\ lazyRet.names = Slice(<<NameA>>)
    /\ lazyRet.servedBy = 1
    /\ ~lazyRet.invoked

\* C5: while every factory invocation has failed, the wrapper is
\* uninitialized and stores no provider, every access so far has invoked the
\* factory and the last one failed with the load error; once an invocation
\* has succeeded the wrapper is initialized, stores the provider of that
\* invocation, and that invocation is the last one.
C5_FailedLoadRetried ==
    /\ ~lazy.initialized =>
         /\ lazy.provider = 0
         /\ loadCount = loadFails
         /\ loadCount = lazyCalls
         /\ lazyCalls > 0 =>
              /\ lazyRet.invoked
              /\ lazyRet.err = Err("failed to load provider", <<>>, NoId)
              /\ lazyRet.val = NoValue
              /\ lazyRet.names = NilSlice
    /\ lazy.initialized =>
         /\ loadCount = loadFails + 1
         /\ lazy.provider = loadCount
         /\ lazyRet.servedBy = lazy.provider
         /\ lazyRet.err # Err("failed to load provider", <<>>, NoId)

\* C5 witness: two failed loads, a third access that loaded, and a fourth
\* access served without invoking the factory.
C5_Witness ==
    /\ loadFails = 2
    /\ loadCount = 3
    /\ lazy.initialized
    /\ lazyCalls = 4
    /\ ~lazyRet.invoked
    /\ lazyRet.servedBy = 3


(***************************************************************************)
(* CompositeProvider.  A delegate is any ResourceProvider: it has an       *)
(* identity, lists names (an InlineProvider may list a name twice), and    *)
(* defines the names it lists, for each kind; a broken delegate (a lazy    *)
(* provider whose factory fails) fails every lookup and every listing.     *)
(* A value names the delegate it comes from; so does an error.             *)
(***************************************************************************)
DelegateNameLists ==
    {<<>>, <<NameA>>, <<NameB>>, <<NameA, NameB>>, <<NameB, NameA>>, <<NameA, NameA>>}

DelegateShapes ==
    [names : DelegateNameLists, broken : {FALSE}] \cup [names : {<<>>}, broken : {TRUE}]

Range(s) == {s[i] : i \in 1 .. Len(s)}

NoCompValue == [kind |-> "none", name |-> <<>>, by |-> 0]

\* provider.GetScript / GetReference / GetAsset of a delegate
DelegateGet(d, kind, name) ==
    IF d.broken
    THEN [val |-> NoCompValue,
          err |-> Err("failed to load provider", <<>>, <<"delegate", d.id>>)]
    ELSE IF name \in Range(d.names)
         THEN [val |-> [kind |-> kind, name |-> name, by |-> d.id], err |-> NilErr]
         ELSE [val |-> NoCompValue,
               err |-> Err(kind \o " not found", name, <<"delegate", d.id>>)]

\* provider.ListScripts / ListReferences / ListAssets of a delegate
DelegateList(d, kind) ==
    IF d.broken
    THEN [names |-> NilSlice,
          err |-> Err("failed to load provider", <<>>, <<"delegate", d.id>>)]
    ELSE [names |-> Slice(d.names), err |-> NilErr]

NewCompositeProvider == [providers |-> <<>>]

\* CompositeProvider.AddProvider
CompositeAddProvider(p, d) == [p EXCEPT !.providers = Append(p.providers, d)]

\* a loop that keeps looking after a success, so that the last success wins
CompositeGetLoopLastWins(providers, i, kind, name, lastErr) ==
    LET hits == {j \in 1 .. Len(providers) :
                    DelegateGet(providers[j], kind, name).err = NilErr}
        last == CHOOSE j \in hits : \A h \in hits : h <= j
    IN
    IF hits # {}
    THEN [val |-> DelegateGet(providers[last], kind, name).val, err |-> NilErr,
          tried |-> Len(providers)]
    ELSE IF providers # <<>>
         THEN [val |-> NoCompValue,
               err |-> DelegateGet(providers[Len(providers)], kind, name).err,
               tried |-> Len(providers)]
         ELSE [val |-> NoCompValue, err |-> Err(kind \o " not found", name, NoId),
               tried |-> 0]

\* a loop that keeps the first error instead of the last
RECURSIVE CompositeGetLoopFirstErr(_, _, _, _, _)
CompositeGetLoopFirstErr(providers, i, kind, name, lastErr) ==
    IF i > Len(providers)
    THEN IF lastErr # NilErr
         THEN [val |-> NoCompValue, err |-> lastErr, tried |-> Len(providers)]
         ELSE [val |-> NoCompValue, err |-> Err(kind \o " not found", name, NoId),
               tried |-> Len(providers)]
    ELSE IF DelegateGet(providers[i], kind, name).err = NilErr
         THEN [val |-> DelegateGet(providers[i], kind, name).val, err |-> NilErr,
               tried |-> i]
         ELSE CompositeGetLoopFirstErr(providers, i + 1, kind, name,
                  IF lastErr = NilErr
                  THEN DelegateGet(providers[i], kind, name).err
                  ELSE lastErr)

\* the loop of CompositeProvider.GetScript / GetReference / GetAsset from
\* delegate i on, lastErr being the error of the delegate before
RECURSIVE CompositeGetLoop(_, _, _, _, _)
CompositeGetLoop(providers, i, kind, name, lastErr) ==
    IF i > Len(providers)
    THEN IF lastErr # NilErr
         THEN [val |-> NoCompValue, err |-> lastErr, tried |-> Len(providers)]
         ELSE [val |-> NoCompValue, err |-> Err(kind \o " not found", name, NoId),
               tried |-> Len(providers)]
    ELSE IF DelegateGet(providers[i], kind, name).err = NilErr
         THEN [val |-> DelegateGet(providers[i], kind, name).val, err |-> NilErr,
               tried |-> i]
         ELSE CompositeGetLoop(providers, i + 1, kind, name,
                               DelegateGet(providers[i], kind, name).err)

CompositeGet(p, kind, name) == CompositeGetLoop(p.providers, 1, kind, name, NilErr)

\* the nameSet of CompositeProvider.ListScripts / ListReferences / ListAssets
\* after the delegates from i on
RECURSIVE CompositeNameSet(_, _, _)
CompositeNameSet(providers, i, kind) ==
    IF i > Len(providers) THEN {}
    ELSE (IF DelegateList(providers[i], kind).err # NilErr
          THEN {}
          ELSE Range(DelegateList(providers[i], kind).names.elems))
         \cup CompositeNameSet(providers, i + 1, kind)

\* the orders in which ranging over the map nameSet can yield its keys
MapOrders(S) ==
    {s \in [1 .. Cardinality(S) -> S] : \A i, j \in 1 .. Cardinality(S) : i # j => s[i] # s[j]}

\* a list operation that returns the error of a delegate that fails to list
CompositeListAbort(p, kind) ==
    LET failing == {i \in 1 .. Len(p.providers) :
                       DelegateList(p.providers[i], kind).err # NilErr}
    IN IF failing # {}
       THEN {[names |-> NilSlice,
              err |-> DelegateList(p.providers[CHOOSE i \in failing :
                                      \A j \in failing : i <= j], kind).err]}
       ELSE {[names |-> Slice(s), err |-> NilErr] :
                s \in MapOrders(CompositeNameSet(p.providers, 1, kind))}

\* what a list operation can return
CompositeList(p, kind) ==
    {[names |-> Slice(s), err |-> NilErr] :
        s \in MapOrders(CompositeNameSet(p.providers, 1, kind))}

NoCompCall ==
    [op |-> "none", kind |-> "none", name |-> <<>>, val |-> NoCompValue,
     names |-> NilSlice, err |-> NilErr, tried |-> 0]

CompIdle ==
    /\ comp = NewCompositeProvider
    /\ compRet = NoCompCall

AddProvider(shape) ==
    /\ Len(comp.providers) < MaxDelegates
    /\ comp' = CompositeAddProvider(comp,
                  [id |-> Len(comp.providers) + 1, names |-> shape.names,
                   broken |-> shape.broken])
    /\ compRet' = NoCompCall
    /\ UNCHANGED notComp

CompGet(kind, name) ==
    /\ LET r == CompositeGet(comp, kind, name) IN
         compRet' = [op |-> "Get", kind |-> kind, name |-> name, val |-> r.val,
                     names |-> NilSlice, err |-> r.err, tried |-> r.tried]
    /\ UNCHANGED <<comp, notComp>>

CompList(kind) ==
    /\ \E r \in CompositeList(comp, kind) :
         compRet' = [op |-> "List", kind |-> kind, name |-> <<>>,
                     val |-> NoCompValue, names |-> r.names, err |-> r.err,
                     tried |-> Len(comp.providers)]
    /\ UNCHANGED <<comp, notComp>>

CompNext ==
    \/ \E sh \in DelegateShapes : AddProvider(sh)
    \/ \E k \in Kinds, n \in Names : CompGet(k, n)
    \/ \E k \in Kinds : CompList(k)

(***************************************************************************)
(* Properties of the CompositeProvider                                     *)
(***************************************************************************)
\* the positions of the delegates that define the name
Definers(name) ==
    {i \in 1 .. Len(comp.providers) :
        ~comp.providers[i].broken /\ name \in Range(comp.providers[i].names)}

Least(S) == CHOOSE i \in S : \A j \in S : i <= j

\* C7: a lookup of a name that one or more delegates define succeeds with the
\* value of the earliest of them in the list, whatever the later ones define;
\* the list is in the order in which the delegates were added, so a delegate
\* added later never takes priority over an earlier one.
C7_PriorityStable ==
    /\ \A i, j \in 1 .. Len(comp.providers) :
         i < j => comp.providers[i].id < comp.providers[j].id
    /\ (compRet.op = "Get" /\ Definers(compRet.name) # {})
       => /\ compRet.err = NilErr
          /\ compRet.val = [kind |-> compRet.kind, name |-> compRet.name,
                            by |-> comp.providers[Least(Definers(compRet.name))].id]

\* C7 witness: three delegates, the last two define the name, and the lookup
\* returned the value of the second.
C7_Witness ==
    /\ compRet.op = "Get"
    /\ Definers(compRet.name) = {2, 3}
    /\ compRet.val.by = comp.providers[2].id

\* C8: a list operation returns no error and the union, without duplicates,
\* of the names listed by the delegates whose listing succeeds.
C8_ListUnion ==
    compRet.op = "List"
    => /\ compRet.err = NilErr
       /\ ~compRet.names.isNil
       /\ \A i, j \in 1 .. Len(compRet.names.elems) :
            i # j => compRet.names.elems[i] # compRet.names.elems[j]
       /\ Range(compRet.names.elems) =
            UNION {Range(comp.providers[i].names) :
                      i \in {j \in 1 .. Len(comp.providers) : ~comp.providers[j].broken}}

\* C8 witness: a listing over a failing delegate, a delegate that lists one
\* name twice and a delegate that lists that name and another.
C8_Witness ==
    /\ compRet.op = "List"
    /\ \E i \in 1 .. Len(comp.providers) : comp.providers[i].broken
    /\ \E i \in 1 .. Len(comp.providers) : comp.providers[i].names = <<NameA, NameA>>
    /\ \E i \in 1 .. Len(comp.providers) : comp.providers[i].names = <<NameB, NameA>>
    /\ compRet.names = Slice(<<NameA, NameB>>)

\* C9: a lookup consults the delegates in list order up to the first that
\* succeeds and no further; if none succeeds it returns the error of the
\* last delegate of the list, and over an empty list the not-found error
\* that names the kind and the key.
C9_LookupOrder ==
    compRet.op = "Get"
    => /\ Definers(compRet.name) # {} =>
            /\ compRet.err = NilErr
            /\ compRet.tried = Least(Definers(compRet.name))
       /\ (Definers(compRet.name) = {} /\ comp.providers # <<>>) =>
            /\ compRet.val = NoCompValue
            /\ compRet.tried = Len(comp.providers)
            /\ compRet.err.by = <<"delegate", comp.providers[Len(comp.providers)].id>>
            /\ compRet.err.kind = IF comp.providers[Len(comp.providers)].broken
                                  THEN "failed to load provider"
                                  ELSE compRet.kind \o " not found"
       /\ comp.providers = <<>> =>
            /\ compRet.val = NoCompValue
            /\ compRet.err = Err(compRet.kind \o " not found", compRet.name, NoId)

\* C9 witness: a lookup that no delegate serves, over a failing delegate
\* followed by two that do not define the name; the error is the last one's.
C9_Witness ==
    /\ compRet.op = "Get"
    /\ Len(comp.providers) = 3
    /\ comp.providers[1].broken
    /\ ~comp.providers[2].broken
    /\ ~comp.providers[3].broken
    /\ Definers(compRet.name) = {}
    /\ compRet.err = Err(compRet.kind \o " not found", compRet.name, <<"delegate", 3>>)


(***************************************************************************)
(* CachingProvider.  The delegate holds, per kind and key, the version of  *)
(* the value it defines (0: it does not define the key); cache[kind] is    *)
(* scriptCache, refCache or assetCache, 0 standing for no entry.           *)
(***************************************************************************)
Keys == Names
MaxVersion == 2

EmptyCache == [k \in Keys |-> 0]
NewCachingProvider == [kind \in Kinds |-> EmptyCache]

\* the delegate's GetScript / GetReference / GetAsset
CacheDelegateGet(d, kind, name) ==
    IF d[kind][name] = 0
    THEN [val |-> 0, err |-> Err(kind \o " not found", name, NoId)]
    ELSE [val |-> d[kind][name], err |-> NilErr]

\* a lookup that never stores what the delegate returned
CachingGetNoStore(c, d, kind, name) ==
    IF c[kind][name] # 0
    THEN [cache |-> c, val |-> c[kind][name], err |-> NilErr, delegated |-> FALSE]
    ELSE [cache |-> c, val |-> CacheDelegateGet(d, kind, name).val,
          err |-> CacheDelegateGet(d, kind, name).err, delegated |-> TRUE]

\* a lookup that stores what the delegate returned before it looks at the
\* error: after a failure the cache holds the zero value, written
\* MaxVersion + 1
CachingGetStoreFirst(c, d, kind, name) ==
    IF c[kind][name] # 0
    THEN [cache |-> c, val |-> c[kind][name], err |-> NilErr, delegated |-> FALSE]
    ELSE IF CacheDelegateGet(d, kind, name).err # NilErr
         THEN [cache |-> [c EXCEPT ![kind][name] = MaxVersion + 1], val |-> 0,
               err |-> CacheDelegateGet(d, kind, name).err, delegated |-> TRUE]
         ELSE [cache |-> [c EXCEPT ![kind][name] = CacheDelegateGet(d, kind, name).val],
               val |-> CacheDelegateGet(d, kind, name).val, err |-> NilErr,
               delegated |-> TRUE]

\* CachingProvider.GetScript / GetReference / GetAsset
CachingGet(c, d, kind, name) ==
    IF c[kind][name] # 0
    THEN [cache |-> c, val |-> c[kind][name], err |-> NilErr, delegated |-> FALSE]
    ELSE IF CacheDelegateGet(d, kind, name).err # NilErr
         THEN [cache |-> c, val |-> 0, err |-> CacheDelegateGet(d, kind, name).err,
               delegated |-> TRUE]
         ELSE [cache |-> [c EXCEPT ![kind][name] = CacheDelegateGet(d, kind, name).val],
               val |-> CacheDelegateGet(d, kind, name).val, err |-> NilErr,
               delegated |-> TRUE]

\* the delegate's ListScripts / ListReferences / ListAssets: the names it
\* defines, or its error
CacheDelegateList(d, kind, fails) ==
    IF fails
    THEN [names |-> NilSlice, err |-> Err("list failed", <<>>, NoId)]
    ELSE [names |-> Slice(SelectSeq(<<NameA, NameB>>, LAMBDA k : d[kind][k] # 0)),
          err |-> NilErr]

\* a listing answered from the names in the cache
CachingListFromCache(c, d, kind, fails) ==
    [names |-> Slice(SelectSeq(<<NameA, NameB>>, LAMBDA k : c[kind][k] # 0)),
     err |-> NilErr, delegated |-> FALSE]

\* CachingProvider.ListScripts / ListReferences / ListAssets
CachingList(c, d, kind, fails) ==
    [names |-> CacheDelegateList(d, kind, fails).names,
     err |-> CacheDelegateList(d, kind, fails).err, delegated |-> TRUE]

\* a clear that empties the script cache only
CachingClearCacheScripts(c) == [c EXCEPT !["script"] = EmptyCache]

\* CachingProvider.ClearCache
CachingClearCache(c) == [kind \in Kinds |-> EmptyCache]

\* a per-kind clear that empties the three caches
CachingClearKindAll(c, kind) == [k \in Kinds |-> EmptyCache]

\* CachingProvider.ClearScriptCache / ClearReferenceCache / ClearAssetCache
CachingClearKind(c, kind) == [c EXCEPT ![kind] = EmptyCache]

ZeroTable == [kind \in Kinds |-> [k \in Keys |-> 0]]

NoCacheCall ==
    [op |-> "none", kind |-> "none", name |-> <<>>, val |-> 0, err |-> NilErr,
     delegated |-> FALSE, names |-> NilSlice]

\* calls: delegate lookups per key since that kind's cache was last cleared;
\* first: the value of the first successful lookup of the key;
\* since: the same since that kind's cache was last cleared;
\* afterOk: delegate lookups of the key made after a successful lookup of it
\*          and before the next clear of that kind's cache
NoHist ==
    [steps |-> 0, calls |-> ZeroTable, first |-> ZeroTable, since |-> ZeroTable,
     afterOk |-> ZeroTable]

\* the delegate a CachingProvider is constructed over
FirstDelegate == [kind \in Kinds |-> [k \in Keys |-> IF k = NameA THEN 1 ELSE 0]]

CacheIdle ==
    /\ cache = NewCachingProvider
    /\ deleg = FirstDelegate
    /\ hist = NoHist
    /\ cacheRet = NoCacheCall

CacheGet(kind, name) ==
    /\ hist.steps < MaxCacheOps
    /\ LET r == CachingGet(cache, deleg, kind, name) IN
         /\ cache' = r.cache
         /\ cacheRet' = [op |-> "Get", kind |-> kind, name |-> name, val |-> r.val,
                         err |-> r.err, delegated |-> r.delegated, names |-> NilSlice]
         /\ hist' = [steps |-> hist.steps + 1,
                     calls |-> IF r.delegated
                               THEN [hist.calls EXCEPT ![kind][name] = @ + 1]
                               ELSE hist.calls,
                     first |-> IF r.err = NilErr /\ hist.first[kind][name] = 0
                               THEN [hist.first EXCEPT ![kind][name] = r.val]
                               ELSE hist.first,
                     since |-> IF r.err = NilErr /\ hist.since[kind][name] = 0
                               THEN [hist.since EXCEPT ![kind][name] = r.val]
                               ELSE hist.since,
                     afterOk |-> IF r.delegated /\ hist.since[kind][name] # 0
                                 THEN [hist.afterOk EXCEPT ![kind][name] = @ + 1]
                                 ELSE hist.afterOk]
    /\ UNCHANGED <<deleg, notCache>>

ClearedHist(kinds) ==
    [hist EXCEPT !.steps = @ + 1,
                 !.calls = [kind \in Kinds |-> IF kind \in kinds THEN EmptyCache ELSE @[kind]],
                 !.since = [kind \in Kinds |-> IF kind \in kinds THEN EmptyCache ELSE @[kind]],
                 !.afterOk = [kind \in Kinds |-> IF kind \in kinds THEN EmptyCache ELSE @[kind]]]

ClearCache ==
    /\ hist.steps < MaxCacheOps
    /\ cache' = CachingClearCache(cache)
    /\ hist' = ClearedHist(Kinds)
    /\ cacheRet' = [NoCacheCall EXCEPT !.op = "ClearCache"]
    /\ UNCHANGED <<deleg, notCache>>

ClearKindCache(kind) ==
    /\ hist.steps < MaxCacheOps
    /\ cache' = CachingClearKind(cache, kind)
    /\ hist' = ClearedHist({kind})
    /\ cacheRet' = [NoCacheCall EXCEPT !.op = "ClearKind", !.kind = kind]
    /\ UNCHANGED <<deleg, notCache>>

\* the delegate comes to define the key, or changes its value for it
DelegateChange(kind, name) ==
    /\ hist.steps < MaxCacheOps
    /\ deleg[kind][name] < MaxVersion
    /\ deleg' = [deleg EXCEPT ![kind][name] = @ + 1]
    /\ hist' = [hist EXCEPT !.steps = @ + 1]
    /\ cacheRet' = NoCacheCall
    /\ UNCHANGED <<cache, notCache>>

\* ListScripts / ListReferences / ListAssets, over a delegate whose listing
\* succeeds or fails
CacheList(kind, fails) ==
    /\ hist.steps < MaxCacheOps
    /\ LET r == CachingList(cache, deleg, kind, fails) IN
         cacheRet' = [NoCacheCall EXCEPT !.op = "List", !.kind = kind, !.err = r.err,
                                         !.names = r.names, !.delegated = r.delegated]
    /\ hist' = [hist EXCEPT !.steps = @ + 1]
    /\ UNCHANGED <<cache, deleg, notCache>>

CacheNext ==
    \/ \E kind \in Kinds, fails \in BOOLEAN : CacheList(kind, fails)
    \/ \E k \in Kinds, n \in Keys : CacheGet(k, n)
    \/ ClearCache
    \/ \E k \in Kinds : ClearKindCache(k)
    \/ \E k \in Kinds, n \in Keys : DelegateChange(k, n)

(***************************************************************************)
(* Properties of the CachingProvider                                       *)
(***************************************************************************)
\* C6 as stated: a successful lookup of a key returns the value of the first
\* successful lookup of that key, and since the last clear the delegate has
\* been invoked at most once for each key of each kind.
C6_AsStated ==
    /\ \A kind \in Kinds, k \in Keys : hist.calls[kind][k] <= 1
    /\ (cacheRet.op = "Get" /\ cacheRet.err = NilErr)
       => cacheRet.val = hist.first[cacheRet.kind][cacheRet.name]

\* C6 amended: a successful lookup of a key returns the value of the first
\* successful lookup of that key since that kind's cache was last cleared,
\* and between a successful lookup of a key and the next clear of that
\* kind's cache the delegate is not invoked for that key (so it is invoked
\* successfully at most once per key between two clears).
C6_TransparentUntilClear ==
    /\ \A kind \in Kinds, k \in Keys : hist.afterOk[kind][k] = 0
    /\ (cacheRet.op = "Get" /\ cacheRet.err = NilErr)
       => cacheRet.val = hist.since[cacheRet.kind][cacheRet.name]

\* C6 witness: a lookup served from the cache with the value of the earlier
\* lookup, after the delegate changed its value for the key.
C6_Witness ==
    /\ cacheRet.op = "Get"
    /\ cacheRet.err = NilErr
    /\ ~cacheRet.delegated
    /\ hist.calls[cacheRet.kind][cacheRet.name] = 1
    /\ deleg[cacheRet.kind][cacheRet.name] # cacheRet.val
    /\ cacheRet.val = hist.since[cacheRet.kind][cacheRet.name]

\* C16: a cached value leaves the cache only by a clear; a lookup of a cached
\* key returns the cached value without consulting the delegate, whatever the
\* delegate holds; ClearCache empties the three caches; a lookup of a key that
\* is not cached consults the delegate and returns what the delegate holds.
C16_NoEvictionUntilClear ==
    [][/\ \A kind \in Kinds, k \in Keys :
            (cache[kind][k] # 0 /\ cacheRet'.op \notin {"ClearCache", "ClearKind"})
            => cache'[kind][k] = cache[kind][k]
       /\ cacheRet'.op = "ClearCache" => cache' = NewCachingProvider
       /\ (cacheRet'.op = "Get" /\ cache[cacheRet'.kind][cacheRet'.name] # 0)
          => /\ ~cacheRet'.delegated
             /\ cacheRet'.err = NilErr
             /\ cacheRet'.val = cache[cacheRet'.kind][cacheRet'.name]
       /\ (cacheRet'.op = "Get" /\ cache[cacheRet'.kind][cacheRet'.name] = 0)
          => /\ cacheRet'.delegated
             /\ cacheRet'.val = deleg[cacheRet'.kind][cacheRet'.name]
             /\ cacheRet'.err = NilErr <=> deleg[cacheRet'.kind][cacheRet'.name] # 0
      ]_vars

\* C16 witness: after a clear, a lookup of a key that had been looked up
\* before consulted the delegate and returned its new value.
C16_Witness ==
    /\ cacheRet.op = "Get"
    /\ cacheRet.delegated
    /\ cacheRet.err = NilErr
    /\ hist.first[cacheRet.kind][cacheRet.name] # 0
    /\ cacheRet.val # hist.first[cacheRet.kind][cacheRet.name]
    /\ cacheRet.val = deleg[cacheRet.kind][cacheRet.name]

\* C17: a list call consults the delegate, returns the delegate's current
\* listing or its error, and leaves the three caches as they were.
C17_ListsNotCached ==
    [][cacheRet'.op = "List"
       => /\ cacheRet'.delegated
          /\ cache' = cache
          /\ \/ /\ cacheRet'.err = NilErr
                /\ ~cacheRet'.names.isNil
                /\ Len(cacheRet'.names.elems)
                   = Cardinality({k \in Keys : deleg[cacheRet'.kind][k] # 0})
                /\ \A k \in Keys :
                     deleg[cacheRet'.kind][k] # 0
                     <=> \E i \in 1 .. Len(cacheRet'.names.elems) :
                            cacheRet'.names.elems[i] = k
             \/ /\ cacheRet'.err = Err("list failed", <<>>, NoId)
                /\ cacheRet'.names = NilSlice
      ]_vars

\* C17 witness: a listing names a key the delegate came to define after a
\* lookup had filled the cache, which holds one key only, with an old value.
C17_Witness ==
    /\ cacheRet.op = "List"
    /\ cacheRet.names = Slice(<<NameA, NameB>>)
    /\ cache[cacheRet.kind][NameA] # 0
    /\ cache[cacheRet.kind][NameA] # deleg[cacheRet.kind][NameA]
    /\ cache[cacheRet.kind][NameB] = 0


(***************************************************************************)
(* The markup extractor on its own.  A body is put together from pieces:   *)
(* single tokens (markers, a stray "<", a character, a blank) and whole    *)
(* tags as the Embed functions write them.                                 *)
(***************************************************************************)
Pieces ==
    {<<t>> : t \in OpenTokens \cup CloseTokens \cup {"<", "a", " "}}
    \cup {EmbedScript(NameA), EmbedReference(<<" ">> \o NameB \o <<" ">>),
          EmbedAsset(NameA)}

NoMarkCall ==
    [op |-> "none", kind |-> "none", tags |-> NilSlice, names |-> NilSlice,
     has |-> FALSE]

MarkIdle ==
    /\ text = <<>>
    /\ nPieces = 0
    /\ markRet = NoMarkCall

\* the caller writes one more piece of the body
MarkupAppend(piece) ==
    /\ nPieces < MaxPieces
    /\ text' = text \o piece
    /\ nPieces' = nPieces + 1
    /\ markRet' = NoMarkCall
    /\ UNCHANGED notMark

\* util.ParseXMLTags
MarkupParse ==
    /\ markRet' = [NoMarkCall EXCEPT !.op = "ParseXMLTags",
                                     !.tags = ParseXMLTags(text)]
    /\ UNCHANGED <<text, nPieces, notMark>>

\* util.ExtractScriptNames / ExtractReferenceNames / ExtractAssetNames
MarkupExtract(kind) ==
    /\ markRet' = [NoMarkCall EXCEPT !.op = "ExtractNames", !.kind = kind,
                                     !.names = ExtractNames(text, kind)]
    /\ UNCHANGED <<text, nPieces, notMark>>

\* util.HasXMLTags
MarkupHas ==
    /\ markRet' = [NoMarkCall EXCEPT !.op = "HasXMLTags", !.has = HasXMLTags(text)]
    /\ UNCHANGED <<text, nPieces, notMark>>

MarkNext ==
    \/ \E piece \in Pieces : MarkupAppend(piece)
    \/ MarkupParse
    \/ \E kind \in Kinds : MarkupExtract(kind)
    \/ MarkupHas

(***************************************************************************)
(* Properties of the markup extractor                                      *)
(***************************************************************************)
\* a well-formed tag starts at i: an opening marker, a non-empty content
\* without "<", and the closing marker of the same kind
WellFormedAt(body, i) ==
    /\ body[i] \in OpenTokens
    /\ LET j == NextLt(body, i + 1) IN
         /\ j >= i + 2
         /\ j <= Len(body)
         /\ body[j] = CloseTag(KindOfOpen(body[i]))

\* the well-formed tags of body[i..], first to last
RECURSIVE WellFormedTags(_, _)
WellFormedTags(body, i) ==
    IF i > Len(body) THEN <<>>
    ELSE (IF WellFormedAt(body, i)
          THEN <<[TagName |-> KindOfOpen(body[i]),
                  Content |-> TrimSpace(SubSeq(body, i + 1, NextLt(body, i + 1) - 1))]>>
          ELSE <<>>)
         \o WellFormedTags(body, i + 1)

\* C18: a body in which no opening marker is followed by a content and the
\* closing marker of the same kind (unterminated tags, closing markers of
\* another kind) yields no tag.
C18_MalformedNotMatched ==
    (markRet.op = "ParseXMLTags" /\ WellFormedTags(text, 1) = <<>>)
    => markRet.tags.elems = <<>>

\* C19: extraction yields exactly the well-formed tags of the body, first to
\* last, each with its kind and trimmed content; nothing for the empty body
\* and for a body without tags.
C19_TagsInOrder ==
    markRet.op = "ParseXMLTags" => markRet.tags.elems = WellFormedTags(text, 1)

\* the contents of the tags of one kind, in order
FilterByKind(tags, kind) ==
    LET sel == SelectSeq(tags, LAMBDA t : t.TagName = kind) IN
    [i \in 1 .. Len(sel) |-> sel[i].Content]

\* C20: the per-kind listing of a body is the unified extraction filtered by
\* that kind, same order and multiplicities, an absent listing read as empty.
C20_PerKindIsFiltered ==
    markRet.op = "ExtractNames"
    => markRet.names.elems = FilterByKind(ParseXMLTags(text).elems, markRet.kind)

\* C20 witness: the script listing of a body with a script tag, a reference
\* tag and the same script tag again.
C20_Witness ==
    /\ markRet.op = "ExtractNames"
    /\ markRet.kind = "script"
    /\ markRet.names = Slice(<<NameA, NameA>>)
    /\ Len(ParseXMLTags(text).elems) = 3


(***************************************************************************)
(* References.  A Reference has a name and a body; the body of a reference *)
(* object tells which object it is.                                        *)
(***************************************************************************)
EmptyBody == NoId

NewReference(origin, index, name) == [Name |-> name, Body |-> <<origin, index>>]

\* the index of the first reference named name at or after i, or 0
RECURSIVE ScanReferences(_, _, _)
ScanReferences(refs, name, i) ==
    IF i > Len(refs) THEN 0
    ELSE IF refs[i].Name = name THEN i
    ELSE ScanReferences(refs, name, i + 1)

\* a scan that starts after the first reference
InlineProviderGetReferenceSkipFirst(p, name) ==
    LET i == ScanReferences(p.References, name, 2) IN
    IF i # 0
    THEN [body |-> p.References[i].Body, err |-> NilErr]
    ELSE [body |-> EmptyBody, err |-> Err("reference not found", name, NoId)]

InlineProviderGetReference(p, name) ==
    LET i == ScanReferences(p.References, name, 1) IN
    IF i # 0
    THEN [body |-> p.References[i].Body, err |-> NilErr]
    ELSE [body |-> EmptyBody, err |-> Err("reference not found", name, NoId)]

InlineProviderAddReference(p, ref) ==
    [p EXCEPT !.References = Append(p.References, ref)]

\* the scan of the Skill's own References
SkillReadReferenceInline(sk, name) ==
    LET i == ScanReferences(sk.References, name, 1) IN
    IF i # 0
    THEN [body |-> sk.References[i].Body, err |-> NilErr]
    ELSE [body |-> EmptyBody, err |-> Err("reference not found", name, NoId)]

\* provider first, inline second
SkillReadReference(sk, p, name) ==
    LET found == InlineProviderGetReference(p, name) IN
    IF sk.Provider # "nil" /\ found.err = NilErr
    THEN found
    ELSE SkillReadReferenceInline(sk, name)

NoRefCall == [op |-> "none", name |-> <<>>, body |-> EmptyBody, err |-> NilErr]

RefIdle ==
    /\ refSkill = [References |-> <<>>, Provider |-> "nil"]
    /\ refProv = [References |-> <<>>]
    /\ refRet = NoRefCall

\* core.WithReference
WithReference(name) ==
    /\ Len(refSkill.References) + Len(refProv.References) < MaxRefs
    /\ refSkill' = [refSkill EXCEPT !.References =
                       Append(@, NewReference("inline", Len(@) + 1, name))]
    /\ refRet' = NoRefCall
    /\ UNCHANGED <<refProv, notRef>>

\* InlineProvider.AddReference on the provider object
ProviderAddReference(name) ==
    /\ Len(refSkill.References) + Len(refProv.References) < MaxRefs
    /\ refProv' = InlineProviderAddReference(refProv,
                      NewReference("provider", Len(refProv.References) + 1, name))
    /\ refRet' = NoRefCall
    /\ UNCHANGED <<refSkill, notRef>>

\* core.WithResourceProvider on the Skill with references
RefWithResourceProvider(p) ==
    /\ refSkill' = [refSkill EXCEPT !.Provider = p]
    /\ refRet' = NoRefCall
    /\ UNCHANGED <<refProv, notRef>>

ReadReference(name) ==
    /\ LET r == SkillReadReference(refSkill, refProv, name) IN
         refRet' = [op |-> "ReadReference", name |-> name, body |-> r.body,
                    err |-> r.err]
    /\ UNCHANGED <<refSkill, refProv, notRef>>

RefNext ==
    \/ \E n \in Names : WithReference(n)
    \/ \E n \in Names : ProviderAddReference(n)
    \/ \E p \in {"nil", "inline"} : RefWithResourceProvider(p)
    \/ \E n \in Names : ReadReference(n)

(***************************************************************************)
(* Properties of ReadReference                                             *)
(***************************************************************************)
\* the references of a list that have the name, by index
NamedRefs(refs, name) == {i \in 1 .. Len(refs) : refs[i].Name = name}

ScriptOccurrences(body) == FilterByKind(WellFormedTags(body, 1), "script")

\* C11: AutoExecute fails with the no-scripts error, returns no outcomes and
\* runs nothing exactly when the body has no script tag.
C11_NoScriptsFound ==
    skillRet.op = "AutoExecute"
    => /\ (skillRet.err # NilErr) <=> (ScriptOccurrences(skill.Body) = <<>>)
       /\ skillRet.err # NilErr
          => /\ skillRet.err = Err("no scripts found in body", <<>>, NoId)
             /\ skillRet.results = NilSlice
             /\ skillRet.runs = <<>>
       /\ skillRet.err = NilErr
          => /\ ~skillRet.results.isNil
             /\ Len(skillRet.results.elems) = Len(ScriptOccurrences(skill.Body))

\* C11 witness: AutoExecute failed on a body of plain text, a reference tag
\* and an asset tag, with a script at hand.
C11_Witness ==
    /\ skillRet.op = "AutoExecute"
    /\ skillRet.err = Err("no scripts found in body", <<>>, NoId)
    /\ skill.Scripts # <<>>
    /\ \E i \in 1 .. Len(skill.Body) : skill.Body[i] = OpenTag("reference")
    /\ \E i \in 1 .. Len(skill.Body) : skill.Body[i] = OpenTag("asset")
    /\ \E i \in 1 .. Len(skill.Body) : skill.Body[i] = "x"

\* C12: Execute fails exactly when AutoExecute does, with its error; else it
\* returns no error and a report of the Skill's name followed, per outcome in
\* AutoExecute order, by the script's line and an error line if it failed or
\* a result line if it succeeded.
C12_ExecuteReport ==
    skillRet.op = "Execute"
    => LET auto == SkillAutoExecute(skill, prov, skillRet.args)
           out == skillRet.output
       IN /\ skillRet.err = auto.err
          /\ skillRet.runs = auto.runs
          /\ auto.err # NilErr => out = <<>>
          /\ auto.err = NilErr =>
               /\ Len(out) = 1 + 2 * Len(auto.results.elems)
               /\ out[1].tag = "Skill" /\ out[1].name = skill.Name
               /\ \A i \in 1 .. Len(auto.results.elems) :
                    LET o == auto.results.elems[i] IN
                    /\ out[2 * i].tag = "Script"
                    /\ out[2 * i].index = i
                    /\ out[2 * i].name = o.ScriptName
                    /\ o.Error # NilErr
                       => out[2 * i + 1].tag = "Error" /\ out[2 * i + 1].err = o.Error
                    /\ o.Error = NilErr
                       => out[2 * i + 1].tag = "Result"
                          /\ out[2 * i + 1].result = o.Result

\* C12 witness: Execute returned no error and a report of two error lines,
\* one of a script that failed and one of a script that was not found.
C12_Witness ==
    /\ skillRet.op = "Execute"
    /\ skillRet.err = NilErr
    /\ Len(skillRet.output) = 5
    /\ skillRet.output[3].tag = "Error" /\ skillRet.output[3].err.kind = "app"
    /\ skillRet.output[5].tag = "Error"
    /\ skillRet.output[5].err.kind = "script not found"

(***************************************************************************)
(* Concurrent lookups of a CachingProvider.  The caches are Go maps and    *)
(* the lookups take no lock.  A lookup is a map read, a call of the        *)
(* delegate and a map write; a map write takes time, and a read or write   *)
(* of the same map by another caller during it is a data race: the runtime *)
(* may stop the program ("concurrent map writes", "concurrent map read and *)
(* map write") or may not notice.                                          *)
(***************************************************************************)
IdleCaller ==
    [pc |-> "idle", kind |-> "none", name |-> <<>>, val |-> 0, err |-> NilErr,
     delegated |-> FALSE]

CacheConcIdle ==
    /\ ccache = NewCachingProvider
    /\ cthr = [t \in Threads |-> IdleCaller]
    /\ cfatal = FALSE
    /\ cseen = [returned |-> [kind \in Kinds |-> [k \in Keys |-> {}]], last |-> ZeroTable]

\* the callers that are in the middle of a write of the map of this kind
Writing(kind) == {u \in Threads : cthr[u].pc = "writing" /\ cthr[u].kind = kind}

\* a caller enters GetScript / GetReference / GetAsset
CallerBegin(t, kind, name) ==
    /\ ~cfatal
    /\ cthr[t].pc = "idle"
    /\ cthr' = [cthr EXCEPT ![t] = [IdleCaller EXCEPT !.pc = "read", !.kind = kind,
                                                      !.name = name]]
    /\ UNCHANGED <<ccache, cfatal, cseen, notConc>>

\* if v, ok := p.cache[name]; ok { return v, nil }
\* during a write by another caller the read races with it: the runtime
\* stops the program, or the read sees the map before or after that write
CallerRead(t, outcome, seen) ==
    /\ ~cfatal
    /\ cthr[t].pc = "read"
    /\ LET kind == cthr[t].kind
           name == cthr[t].name
           racing == Writing(kind) \ {t}
           now == ccache[kind][name]
           ahead == {cthr[u].val : u \in {w \in racing : cthr[w].name = name}}
       IN /\ outcome \in (IF racing = {} THEN {"ok"} ELSE {"ok", "fatal"})
          /\ seen \in (IF outcome = "fatal" THEN {0} ELSE {now} \cup ahead)
          /\ cfatal' = (outcome = "fatal")
          /\ cthr' = IF outcome = "fatal" THEN cthr
                     ELSE IF seen # 0
                     THEN [cthr EXCEPT ![t].pc = "done", ![t].val = seen]
                     ELSE [cthr EXCEPT ![t].pc = "delegate"]
    /\ UNCHANGED <<ccache, cseen, notConc>>

\* v, err := p.provider.Get(ctx, name); if err != nil { return nil, err }
CallerDelegate(t, v) ==
    /\ ~cfatal
    /\ cthr[t].pc = "delegate"
    /\ LET kind == cthr[t].kind
           name == cthr[t].name
       IN IF FirstDelegate[kind][name] = 0
          THEN /\ cthr' = [cthr EXCEPT ![t].pc = "done", ![t].delegated = TRUE,
                                       ![t].err = Err(kind \o " not found", name, NoId)]
               /\ cseen' = cseen
          ELSE /\ cthr' = [cthr EXCEPT ![t].pc = "write", ![t].delegated = TRUE,
                                       ![t].val = v]
               /\ cseen' = [cseen EXCEPT !.returned[kind][name] = @ \cup {v}]
    /\ UNCHANGED <<ccache, cfatal, notConc>>

\* p.cache[name] = v, entered: during a write by another caller the runtime
\* stops the program, or does not notice
CallerWriteBegin(t, outcome) ==
    /\ ~cfatal
    /\ cthr[t].pc = "write"
    /\ outcome \in (IF Writing(cthr[t].kind) = {} THEN {"ok"} ELSE {"ok", "fatal"})
    /\ cfatal' = (outcome = "fatal")
    /\ cthr' = IF outcome = "fatal" THEN cthr ELSE [cthr EXCEPT ![t].pc = "writing"]
    /\ UNCHANGED <<ccache, cseen, notConc>>

\* p.cache[name] = v, completed; return v, nil
CallerWriteEnd(t, outcome) ==
    /\ ~cfatal
    /\ cthr[t].pc = "writing"
    /\ outcome \in (IF Writing(cthr[t].kind) = {t} THEN {"ok"} ELSE {"ok", "fatal"})
    /\ cfatal' = (outcome = "fatal")
    /\ IF outcome = "fatal"
       THEN UNCHANGED <<ccache, cthr, cseen>>
       ELSE /\ ccache' = [ccache EXCEPT ![cthr[t].kind][cthr[t].name] = cthr[t].val]
            /\ cseen' = [cseen EXCEPT !.last[cthr[t].kind][cthr[t].name] = cthr[t].val]
            /\ cthr' = [cthr EXCEPT ![t].pc = "done"]
    /\ UNCHANGED notConc

CacheConcNext ==
    \/ \E t \in Threads, kind \in Kinds, n \in Keys : CallerBegin(t, kind, n)
    \/ \E t \in Threads, o \in {"ok", "fatal"}, v \in 0 .. MaxVersion : CallerRead(t, o, v)
    \/ \E t \in Threads, v \in 1 .. MaxVersion : CallerDelegate(t, v)
    \/ \E t \in Threads, o \in {"ok", "fatal"} : CallerWriteBegin(t, o)
    \/ \E t \in Threads, o \in {"ok", "fatal"} : CallerWriteEnd(t, o)

\* C15: the program is not stopped, a lookup that has returned a value
\* returned one the delegate returned for the key, and when all lookups have
\* returned, the cache holds for each written key the value written last.
C15_BenignRace ==
    /\ ~cfatal
    /\ \A t \in Threads :
         (cthr[t].pc = "done" /\ cthr[t].err = NilErr)
         => cthr[t].val \in cseen.returned[cthr[t].kind][cthr[t].name]
    /\ (\A t \in Threads : cthr[t].pc \in {"idle", "done"})
       => \A kind \in Kinds, k \in Keys :
            cseen.last[kind][k] # 0 => ccache[kind][k] = cseen.last[kind][k]

(***************************************************************************)
(* The generic invocation engine: EasyScript[I, O].Run.  Go values of the  *)
(* input and output types are records (kind, isNil, elems); a JSON text is *)
(* a sequence of tokens.  Run makes an instance of I, decodes the argument *)
(* text into it, calls the wrapped function, and encodes what it returned. *)
(***************************************************************************)
MaxNum == 1
MaxElems == 1
ArrayLen == 1

Digits == <<"0", "1", "2", "3">>
IsDigit(tok) == \E i \in 1 .. Len(Digits) : Digits[i] = tok
DigitTok(n) == Digits[n + 1]
TokNum(tok) == (CHOOSE i \in 1 .. Len(Digits) : Digits[i] = tok) - 1

InTypes == {"int", "slice", "array", "map", "ptr"}

GoValue(kind, isNil, elems) == [kind |-> kind, isNil |-> isNil, elems |-> elems]
NoGoValue == GoValue("none", TRUE, <<>>)
ChanValue == GoValue("chan", FALSE, <<>>)

SeqsUpTo(n) == UNION {[1 .. k -> 0 .. MaxNum] : k \in 0 .. n}

\* the values of each input type: int, []int, [ArrayLen]int, map[string]int
\* with at most the key k, *int
Values(type) ==
    CASE type = "int" -> {GoValue("int", FALSE, <<n>>) : n \in 0 .. MaxNum}
      [] type = "slice" -> {GoValue("slice", TRUE, <<>>)}
                           \cup {GoValue("slice", FALSE, s) : s \in SeqsUpTo(MaxElems)}
      [] type = "array" -> {GoValue("array", FALSE, s) : s \in [1 .. ArrayLen -> 0 .. MaxNum]}
      [] type = "map" -> {GoValue("map", TRUE, <<>>), GoValue("map", FALSE, <<>>)}
                         \cup {GoValue("map", FALSE, <<n>>) : n \in 0 .. MaxNum}
      [] type = "ptr" -> {GoValue("ptr", TRUE, <<>>)}
                         \cup {GoValue("ptr", FALSE, <<n>>) : n \in 0 .. MaxNum}

RunNilErr == [origin |-> "nil", what |-> "nil"]
JSONErr(what) == [origin |-> "json", what |-> what]
AppErr == [origin |-> "app", what |-> "failed"]

\* util.NewInstance[T]: the instance, or the abort of reflect.MakeSlice on a
\* type that is not a slice
NewInstance(type) ==
    CASE type = "map" -> [panics |-> FALSE, v |-> GoValue("map", FALSE, <<>>)]
      [] type = "slice" -> [panics |-> FALSE, v |-> GoValue("slice", FALSE, <<>>)]
      [] type = "array" -> [panics |-> TRUE, v |-> NoGoValue]
      [] type = "ptr" -> [panics |-> FALSE, v |-> GoValue("ptr", FALSE, <<0>>)]
      [] OTHER -> [panics |-> FALSE, v |-> GoValue("int", FALSE, <<0>>)]

\* the elements of a JSON array from token i on: d , d , ... ]
RECURSIVE ParseElems(_, _, _)
ParseElems(toks, i, acc) ==
    IF i + 1 > Len(toks) \/ ~IsDigit(toks[i])
    THEN [valid |-> FALSE, kind |-> "invalid", elems |-> <<>>]
    ELSE IF toks[i + 1] = "]" /\ i + 1 = Len(toks)
         THEN [valid |-> TRUE, kind |-> "array", elems |-> Append(acc, TokNum(toks[i]))]
         ELSE IF toks[i + 1] = ","
              THEN ParseElems(toks, i + 2, Append(acc, TokNum(toks[i])))
              ELSE [valid |-> FALSE, kind |-> "invalid", elems |-> <<>>]

\* the JSON value a text denotes: null, a number, an array of numbers, or
\* an object with at most the key k; anything else is not valid JSON
ParseJSON(toks) ==
    CASE toks = <<"null">> -> [valid |-> TRUE, kind |-> "null", elems |-> <<>>]
      [] Len(toks) = 1 /\ IsDigit(toks[1]) ->
            [valid |-> TRUE, kind |-> "number", elems |-> <<TokNum(toks[1])>>]
      [] toks = <<"[", "]">> -> [valid |-> TRUE, kind |-> "array", elems |-> <<>>]
      [] Len(toks) > 2 /\ toks[1] = "[" -> ParseElems(toks, 2, <<>>)
      [] toks = <<"{", "}">> -> [valid |-> TRUE, kind |-> "object", elems |-> <<>>]
      [] Len(toks) = 5 /\ toks[1] = "{" /\ toks[2] = "k" /\ toks[3] = ":"
         /\ IsDigit(toks[4]) /\ toks[5] = "}" ->
            [valid |-> TRUE, kind |-> "object", elems |-> <<TokNum(toks[4])>>]
      [] OTHER -> [valid |-> FALSE, kind |-> "invalid", elems |-> <<>>]

\* the first ArrayLen elements of s, zeros where s is shorter
FitArray(s) == [i \in 1 .. ArrayLen |-> IF i <= Len(s) THEN s[i] ELSE 0]

\* json.Unmarshal(text, &v): the value afterwards and the error
Unmarshal(toks, v) ==
    LET j == ParseJSON(toks) IN
    IF ~j.valid THEN [v |-> v, err |-> JSONErr("syntax")]
    ELSE IF j.kind = "null"
    THEN [v |-> IF v.kind \in {"slice", "map", "ptr"}
                THEN GoValue(v.kind, TRUE, <<>>) ELSE v,
          err |-> RunNilErr]
    ELSE IF j.kind = "number" /\ v.kind \in {"int", "ptr"}
    THEN [v |-> GoValue(v.kind, FALSE, j.elems), err |-> RunNilErr]
    ELSE IF j.kind = "array" /\ v.kind = "slice"
    THEN [v |-> GoValue("slice", FALSE, j.elems), err |-> RunNilErr]
    ELSE IF j.kind = "array" /\ v.kind = "array"
    THEN [v |-> GoValue("array", FALSE, FitArray(j.elems)), err |-> RunNilErr]
    ELSE IF j.kind = "object" /\ v.kind = "map"
    THEN [v |-> GoValue("map", FALSE, IF j.elems = <<>> /\ ~v.isNil THEN v.elems ELSE j.elems),
          err |-> RunNilErr]
    ELSE [v |-> v, err |-> JSONErr("type")]

\* d , d , ... without the brackets
RECURSIVE JoinElems(_, _)
JoinElems(s, i) ==
    IF i > Len(s) THEN <<>>
    ELSE IF i = Len(s) THEN <<DigitTok(s[i])>>
    ELSE <<DigitTok(s[i]), ",">> \o JoinElems(s, i + 1)

\* json.Marshal(v): the text and the error
Marshal(v) ==
    CASE v.kind = "chan" -> [text |-> <<>>, err |-> JSONErr("unsupported type")]
      [] v.kind \in {"slice", "map", "ptr"} /\ v.isNil ->
            [text |-> <<"null">>, err |-> RunNilErr]
      [] v.kind \in {"int", "ptr"} -> [text |-> <<DigitTok(v.elems[1])>>, err |-> RunNilErr]
      [] v.kind \in {"slice", "array"} ->
            [text |-> <<"[">> \o JoinElems(v.elems, 1) \o <<"]">>, err |-> RunNilErr]
      [] v.kind = "map" ->
            [text |-> IF v.elems = <<>> THEN <<"{", "}">>
                      ELSE <<"{", "k", ":", DigitTok(v.elems[1]), "}">>,
             err |-> RunNilErr]

\* the wrapped functions: echo returns its input, fail fails with its own
\* error, chan returns a value that no JSON text denotes
Fns == {"echo", "fail", "chan"}

Fn(fn, input) ==
    CASE fn = "echo" -> [out |-> input, err |-> RunNilErr]
      [] fn = "fail" -> [out |-> NoGoValue, err |-> AppErr]
      [] fn = "chan" -> [out |-> ChanValue, err |-> RunNilErr]

\* a Run that calls the function with whatever the decoder left behind
EasyScriptRunNoDecodeCheck(type, fn, args) ==
    LET inst == NewInstance(type) IN
    IF inst.panics
    THEN [aborted |-> TRUE, called |-> <<>>, result |-> <<>>, err |-> RunNilErr]
    ELSE LET d == Unmarshal(args, inst.v)
             o == Fn(fn, d.v)
             m == Marshal(o.out)
         IN IF o.err # RunNilErr
            THEN [aborted |-> FALSE, called |-> <<d.v>>, result |-> <<>>, err |-> o.err]
            ELSE [aborted |-> FALSE, called |-> <<d.v>>, result |-> m.text, err |-> m.err]

\* a Run that reports a failure of the function as an encoding failure
EasyScriptRunWrapFnErr(type, fn, args) ==
    LET inst == NewInstance(type) IN
    IF inst.panics
    THEN [aborted |-> TRUE, called |-> <<>>, result |-> <<>>, err |-> RunNilErr]
    ELSE LET d == Unmarshal(args, inst.v) IN
         IF d.err # RunNilErr
         THEN [aborted |-> FALSE, called |-> <<>>, result |-> <<>>, err |-> d.err]
         ELSE LET o == Fn(fn, d.v)
                  m == Marshal(o.out)
              IN IF o.err # RunNilErr
                 THEN [aborted |-> FALSE, called |-> <<d.v>>, result |-> <<>>,
                       err |-> JSONErr("unsupported type")]
                 ELSE [aborted |-> FALSE, called |-> <<d.v>>,
                       result |-> m.text, err |-> m.err]

\* EasyScript.Run: whether it aborted, the inputs the function was called
\* with, and (result, err)
EasyScriptRun(type, fn, args) ==
    LET inst == NewInstance(type) IN
    IF inst.panics
    THEN [aborted |-> TRUE, called |-> <<>>, result |-> <<>>, err |-> RunNilErr]
    ELSE LET d == Unmarshal(args, inst.v) IN
         IF d.err # RunNilErr
         THEN [aborted |-> FALSE, called |-> <<>>, result |-> <<>>, err |-> d.err]
         ELSE LET o == Fn(fn, d.v)
                  m == Marshal(o.out)
              IN IF o.err # RunNilErr
                 THEN [aborted |-> FALSE, called |-> <<d.v>>, result |-> <<>>, err |-> o.err]
                 ELSE IF m.err # RunNilErr
                 THEN [aborted |-> FALSE, called |-> <<d.v>>, result |-> <<>>, err |-> m.err]
                 ELSE [aborted |-> FALSE, called |-> <<d.v>>, result |-> m.text,
                       err |-> RunNilErr]

\* the argument texts: every encoding of a value, and texts that are not
\* valid JSON
AllValues == UNION {Values(t) : t \in InTypes}
BadTexts == {<<"o">>, <<"[", "1">>, <<"{", "k", "}">>, <<"[", "1", ",", "]">>}
ArgTexts == {Marshal(x).text : x \in AllValues} \cup BadTexts

NoRun ==
    [op |-> "none", type |-> "int", fn |-> "echo", args |-> <<>>, input |-> NoGoValue,
     aborted |-> FALSE, called |-> <<>>, result |-> <<>>, err |-> RunNilErr]

RunIdle == runRet = NoRun

\* Run on an argument text
RunArgs(type, fn, args) ==
    /\ LET r == EasyScriptRun(type, fn, args) IN
         runRet' = [op |-> "Run", type |-> type, fn |-> fn, args |-> args,
                    input |-> NoGoValue, aborted |-> r.aborted, called |-> r.called,
                    result |-> r.result, err |-> r.err]
    /\ UNCHANGED notRun

\* Run on the encoding of a value x of the input type
RunEncoded(type, fn, x) ==
    /\ LET r == EasyScriptRun(type, fn, Marshal(x).text) IN
         runRet' = [op |-> "Run", type |-> type, fn |-> fn, args |-> Marshal(x).text,
                    input |-> x, aborted |-> r.aborted, called |-> r.called,
                    result |-> r.result, err |-> r.err]
    /\ UNCHANGED notRun

RunNext ==
    \/ \E t \in InTypes, f \in Fns, a \in ArgTexts : RunArgs(t, f, a)
    \/ \E t \in InTypes, f \in Fns : \E x \in Values(t) : RunEncoded(t, f, x)

(***************************************************************************)
(* Properties of EasyScript.Run                                            *)
(***************************************************************************)
\* the error of decoding the argument text of the last Run into an instance
\* of its input type
DecodeErrOf(r) == Unmarshal(r.args, NewInstance(r.type).v).err

\* C21: when the argument text of a Run does not decode into the instance
\* of the input type, Run returns the decoder's own error and the empty
\* result, and the wrapped function is not called.  (For the input types
\* NewInstance makes an instance of; for an array type Run never gets to
\* the decoder, and the function is not called either.)
C21_DecodeFailure ==
    runRet.op = "Run" =>
      /\ runRet.aborted => runRet.called = <<>>
      /\ (~NewInstance(runRet.type).panics /\ DecodeErrOf(runRet) # RunNilErr)
           => /\ ~runRet.aborted
              /\ runRet.err = DecodeErrOf(runRet)
              /\ runRet.err.origin = "json"
              /\ runRet.result = <<>>
              /\ runRet.called = <<>>

C21_Witness ==
    /\ runRet.op = "Run"
    /\ runRet.type = "slice"
    /\ runRet.fn = "echo"
    /\ runRet.args = <<"[", "1">>
    /\ runRet.err = JSONErr("syntax")
    /\ runRet.called = <<>>

\* C22: when the wrapped function fails, Run returns exactly the function's
\* error and the empty result; an error of the function is the only error
\* Run returns that is not a JSON error, and a JSON error is returned only
\* when the function did not fail.
C22_FnErrorVerbatim ==
    runRet.op = "Run" =>
      LET failed == Len(runRet.called) = 1
                    /\ Fn(runRet.fn, runRet.called[1]).err # RunNilErr
      IN /\ failed => /\ runRet.err = Fn(runRet.fn, runRet.called[1]).err
                      /\ runRet.result = <<>>
         /\ runRet.err.origin = "app" <=> failed
         /\ runRet.err.origin = "json" => ~failed

C22_Witness ==
    /\ runRet.op = "Run"
    /\ runRet.fn = "fail"
    /\ runRet.type = "map"
    /\ runRet.called = <<GoValue("map", FALSE, <<1>>)>>
    /\ runRet.err = AppErr
    /\ runRet.result = <<>>

\* C23: for every input x, Run on the encoding of x succeeds exactly when
\* the function succeeds on x, and then returns the encoding of what the
\* function returns on x.
C23_RunIsFnThroughJSON ==
    (runRet.op = "Run" /\ runRet.input # NoGoValue) =>
      LET p == Fn(runRet.fn, runRet.input) IN
        /\ (~runRet.aborted /\ runRet.err = RunNilErr) <=> p.err = RunNilErr
        /\ p.err = RunNilErr => /\ Marshal(p.out).err = RunNilErr
                                /\ runRet.result = Marshal(p.out).text

\* the same, for the input types NewInstance makes an instance of and the
\* functions whose output has an encoding
C23_EncodableRoundTrip ==
    (runRet.op = "Run" /\ runRet.input # NoGoValue /\ ~runRet.aborted
     /\ runRet.fn # "chan") =>
      LET p == Fn(runRet.fn, runRet.input) IN
        /\ runRet.err = RunNilErr <=> p.err = RunNilErr
        /\ p.err = RunNilErr => /\ runRet.result = Marshal(p.out).text
                                /\ Unmarshal(runRet.result, NewInstance(runRet.type).v).v = p.out

(***************************************************************************)
(* The remote invocation engine: RemoteScript.Run over a transport, and    *)
(* the default transport HTTPRemoteScriptClient.Call.  A response body and *)
(* a result are sequences of tokens; 'r' is the JSON string r.             *)
(***************************************************************************)
MaxRemoteCalls == 1
StatusOK == 200

Statuses == {StatusOK, StatusOK + 1, 404, 500}
Is2xx(status) == status >= 200 /\ status <= 299

RemNilErr == [kind |-> "nil", status |-> 0, msg |-> <<>>]
RemErr(kind, status, msg) == [kind |-> kind, status |-> status, msg |-> msg]

Clients == {"nil", "mock", "http"}

StringToks == {"''", "'r'", "'boom'"}
ValueToks == StringToks \cup {"5"}

\* the Go string a JSON string token denotes
Unquote(tok) ==
    CASE tok = "'r'" -> <<"r">>
      [] tok = "'boom'" -> <<"boom">>
      [] OTHER -> <<>>

\* the response bodies: objects with a result field, an error field, both
\* or neither, other JSON values, and texts that are not JSON
Bodies ==
    {<<"{", "}">>, <<"null">>, <<"[", "]">>, <<>>, <<"not", "json">>,
     <<"{", "result", ":", "'r'">>}
    \cup {<<"{", "result", ":", v, "}">> : v \in ValueToks}
    \cup {<<"{", "error", ":", v, "}">> : v \in ValueToks}
    \cup {<<"{", "result", ":", v, ",", "error", ":", w, "}">> :
            v \in ValueToks, w \in ValueToks}

\* the JSON value of a body: whether it is valid JSON, whether it is an
\* object, and the tokens of its result and error fields
ParseBody(body) ==
    CASE body = <<"{", "}">> ->
            [valid |-> TRUE, object |-> TRUE, result |-> "absent", error |-> "absent"]
      [] body \in {<<"null">>, <<"[", "]">>} ->
            [valid |-> TRUE, object |-> FALSE, result |-> "absent", error |-> "absent"]
      [] Len(body) = 5 /\ body[1] = "{" /\ body[2] = "result" /\ body[3] = ":"
         /\ body[4] \in ValueToks /\ body[5] = "}" ->
            [valid |-> TRUE, object |-> TRUE, result |-> body[4], error |-> "absent"]
      [] Len(body) = 5 /\ body[1] = "{" /\ body[2] = "error" /\ body[3] = ":"
         /\ body[4] \in ValueToks /\ body[5] = "}" ->
            [valid |-> TRUE, object |-> TRUE, result |-> "absent", error |-> body[4]]
      [] Len(body) = 9 /\ body[1] = "{" /\ body[2] = "result" /\ body[3] = ":"
         /\ body[4] \in ValueToks /\ body[5] = "," /\ body[6] = "error"
         /\ body[7] = ":" /\ body[8] \in ValueToks /\ body[9] = "}" ->
            [valid |-> TRUE, object |-> TRUE, result |-> body[4], error |-> body[8]]
      [] OTHER ->
            [valid |-> FALSE, object |-> FALSE, result |-> "absent", error |-> "absent"]

\* json.Unmarshal(body, &callResp): whether it returned an error, and the
\* fields of callResp afterwards.  A field of the wrong type is an error
\* and leaves that field empty; the other field is still decoded.
UnmarshalResponse(body) ==
    LET j == ParseBody(body) IN
    IF ~j.valid THEN [failed |-> TRUE, Result |-> <<>>, Error |-> <<>>]
    ELSE IF ~j.object THEN [failed |-> body # <<"null">>, Result |-> <<>>, Error |-> <<>>]
    ELSE [failed |-> j.result = "5" \/ j.error = "5",
          Result |-> Unquote(j.result), Error |-> Unquote(j.error)]

\* what the HTTP exchange of one call comes to: the request cannot be made,
\* the exchange fails (connection, timeout, cancellation), the body cannot
\* be read, or a response with a status and a body arrives
HTTPReplies ==
    {[stage |-> s, status |-> 0, body |-> <<>>] : s \in {"request", "do", "read"}}
    \cup {[stage |-> "response", status |-> st, body |-> b] : st \in Statuses, b \in Bodies}

\* a transport that fails every response of status 500 and above only
HTTPCallServerErrorsOnly(name, args, reply) ==
    IF reply.stage # "response"
    THEN [result |-> <<>>, err |-> RemErr(reply.stage, 0, <<>>)]
    ELSE IF reply.status >= 500
    THEN [result |-> <<>>, err |-> RemErr("status", reply.status, reply.body)]
    ELSE LET callResp == UnmarshalResponse(reply.body) IN
         IF ~callResp.failed /\ callResp.Error # <<>>
         THEN [result |-> <<>>, err |-> RemErr("remote", 0, callResp.Error)]
         ELSE IF callResp.Result # <<>>
         THEN [result |-> callResp.Result, err |-> RemNilErr]
         ELSE [result |-> reply.body, err |-> RemNilErr]

\* HTTPRemoteScriptClient.Call: (result, err)
HTTPCall(name, args, reply) ==
    IF reply.stage # "response"
    THEN [result |-> <<>>, err |-> RemErr(reply.stage, 0, <<>>)]
    ELSE IF reply.status # StatusOK
    THEN [result |-> <<>>, err |-> RemErr("status", reply.status, reply.body)]
    ELSE LET callResp == UnmarshalResponse(reply.body) IN
         IF ~callResp.failed /\ callResp.Error # <<>>
         THEN [result |-> <<>>, err |-> RemErr("remote", 0, callResp.Error)]
         ELSE IF callResp.Result # <<>>
         THEN [result |-> callResp.Result, err |-> RemNilErr]
         ELSE [result |-> reply.body, err |-> RemNilErr]

\* what a transport of the caller's own answers: any result with any error
MockReplies ==
    {[stage |-> "mock", status |-> 0, body |-> b] : b \in {<<>>, <<"r">>}}
    \cup {[stage |-> "mock failed", status |-> 0, body |-> b] : b \in {<<>>, <<"r">>}}

MockCall(name, args, reply) ==
    [result |-> reply.body,
     err |-> IF reply.stage = "mock" THEN RemNilErr ELSE RemErr("mock", 0, <<>>)]

NoReply == [stage |-> "none", status |-> 0, body |-> <<>>]

RepliesOf(client) ==
    CASE client = "http" -> HTTPReplies
      [] client = "mock" -> MockReplies
      [] OTHER -> {NoReply}

ClientCall(client, name, args, reply) ==
    IF client = "http" THEN HTTPCall(name, args, reply) ELSE MockCall(name, args, reply)

NewRemoteScript(name, client) == [Name |-> name, Client |-> client]

\* a Run that calls the transport under the name NameA whatever its own is
RemoteScriptRunFixedName(s, args, reply) ==
    IF s.Client = "nil"
    THEN [result |-> <<>>, err |-> RemErr("not configured", 0, <<>>), calls |-> <<>>]
    ELSE [result |-> ClientCall(s.Client, NameA, args, reply).result,
          err |-> ClientCall(s.Client, NameA, args, reply).err,
          calls |-> <<[name |-> NameA, args |-> args]>>]

\* RemoteScript.Run: (result, err) and the calls the transport received
RemoteScriptRun(s, args, reply) ==
    IF s.Client = "nil"
    THEN [result |-> <<>>, err |-> RemErr("not configured", 0, <<>>), calls |-> <<>>]
    ELSE [result |-> ClientCall(s.Client, s.Name, args, reply).result,
          err |-> ClientCall(s.Client, s.Name, args, reply).err,
          calls |-> <<[name |-> s.Name, args |-> args]>>]

NoRemCall ==
    [op |-> "none", name |-> <<>>, args |-> "", reply |-> NoReply, result |-> <<>>,
     err |-> RemNilErr, calls |-> <<>>]

RemIdle ==
    /\ remote = NewRemoteScript(NameA, "nil")
    /\ wire = 0
    /\ remRet = NoRemCall

\* NewRemoteScript(name, client)
CreateRemoteScript(name, client) ==
    /\ remote' = NewRemoteScript(name, client)
    /\ wire' = 0
    /\ remRet' = NoRemCall
    /\ UNCHANGED notRem

\* Run of the RemoteScript; reply is what its transport's exchange comes to
RemoteRun(args, reply) ==
    /\ wire < MaxRemoteCalls
    /\ reply \in RepliesOf(remote.Client)
    /\ LET r == RemoteScriptRun(remote, args, reply) IN
         /\ remRet' = [op |-> "Run", name |-> remote.Name, args |-> args,
                       reply |-> reply, result |-> r.result, err |-> r.err,
                       calls |-> r.calls]
         /\ wire' = wire + Len(r.calls)
    /\ UNCHANGED <<remote, notRem>>

\* Call of the default transport, by a caller of its own
TransportCall(name, args, reply) ==
    /\ wire < MaxRemoteCalls
    /\ LET r == HTTPCall(name, args, reply) IN
         remRet' = [op |-> "Call", name |-> name, args |-> args, reply |-> reply,
                    result |-> r.result, err |-> r.err,
                    calls |-> <<[name |-> name, args |-> args]>>]
    /\ wire' = wire + 1
    /\ UNCHANGED <<remote, notRem>>

RemNext ==
    \/ \E n \in Names, c \in Clients : CreateRemoteScript(n, c)
    \/ \E a \in Args, reply \in HTTPReplies \cup MockReplies \cup {NoReply} :
          RemoteRun(a, reply)
    \/ \E n \in Names, a \in Args, reply \in HTTPReplies : TransportCall(n, a, reply)

(***************************************************************************)
(* Properties of the remote invocation engine                              *)
(***************************************************************************)
\* C24: Run of a RemoteScript without a transport fails with the
\* configuration error and the transport receives no call; with a transport
\* the transport receives exactly one call, with the script's own name and
\* the argument string of the Run, and Run returns what that call returned.
C24_RemoteRun ==
    remRet.op = "Run" =>
      IF remote.Client = "nil"
      THEN /\ remRet.err = RemErr("not configured", 0, <<>>)
           /\ remRet.result = <<>>
           /\ remRet.calls = <<>>
      ELSE /\ remRet.calls = <<[name |-> remote.Name, args |-> remRet.args]>>
           /\ remRet.result = ClientCall(remote.Client, remote.Name, remRet.args,
                                         remRet.reply).result
           /\ remRet.err = ClientCall(remote.Client, remote.Name, remRet.args,
                                      remRet.reply).err
           /\ remote.Client = "mock" =>
                /\ remRet.result = remRet.reply.body
                /\ remRet.err = RemNilErr <=> remRet.reply.stage = "mock"

C24_Witness ==
    /\ remRet.op = "Run"
    /\ remote = NewRemoteScript(NameB, "mock")
    /\ remRet.reply.stage = "mock failed"
    /\ remRet.reply.body = <<"r">>
    /\ remRet.calls = <<[name |-> NameB, args |-> remRet.args]>>
    /\ remRet.result = <<"r">>
    /\ remRet.err # RemNilErr

\* whether the last operation was an exchange of the default transport that
\* got a response
GotResponse ==
    /\ remRet.op = "Call" \/ (remRet.op = "Run" /\ remote.Client = "http")
    /\ remRet.reply.stage = "response"

\* C25: for a response of status 2xx: a non-empty error field fails the
\* call with that error; otherwise a body that is not valid JSON or has no
\* result field is the result, as it is; otherwise the result field is the
\* result.
C25_SuccessfulResponse ==
    (GotResponse /\ Is2xx(remRet.reply.status)) =>
      LET j == ParseBody(remRet.reply.body) IN
      IF j.error \in StringToks /\ Unquote(j.error) # <<>>
      THEN /\ remRet.err = RemErr("remote", 0, Unquote(j.error))
           /\ remRet.result = <<>>
      ELSE IF ~j.valid \/ j.result = "absent"
      THEN /\ remRet.err = RemNilErr
           /\ remRet.result = remRet.reply.body
      ELSE /\ remRet.err = RemNilErr
           /\ remRet.result = Unquote(j.result)

\* the same for the status 200 and the bodies whose fields, where present,
\* are strings, and whose result field, where present, is not empty
C25_PlainResponse ==
    (GotResponse /\ remRet.reply.status = StatusOK) =>
      LET j == ParseBody(remRet.reply.body) IN
      (j.error # "5" /\ j.result \notin {"5", "''"}) =>
        IF j.error \in StringToks /\ Unquote(j.error) # <<>>
        THEN /\ remRet.err = RemErr("remote", 0, Unquote(j.error))
             /\ remRet.result = <<>>
        ELSE IF ~j.valid \/ j.result = "absent"
        THEN /\ remRet.err = RemNilErr
             /\ remRet.result = remRet.reply.body
        ELSE /\ remRet.err = RemNilErr
             /\ remRet.result = Unquote(j.result)

\* C26: a response whose status is not 2xx fails the call, with the empty
\* result, whatever its body is.
C26_Not2xxFails ==
    (GotResponse /\ ~Is2xx(remRet.reply.status)) =>
      /\ remRet.err # RemNilErr
      /\ remRet.err.kind = "status"
      /\ remRet.result = <<>>

C26_Witness ==
    /\ remRet.op = "Call"
    /\ remRet.reply.stage = "response"
    /\ remRet.reply.status = 404
    /\ remRet.reply.body = <<"{", "result", ":", "'r'", "}">>
    /\ remRet.err = RemErr("status", 404, remRet.reply.body)
    /\ remRet.result = <<>>

(***************************************************************************)
(* The Skill and provider states a caller can construct: a Skill literal   *)
(* with or without Metadata, and a LazyLoadingProvider whose loader        *)
(* returns any pair of a provider (or nil) and an error (or nil).  An      *)
(* operation either returns or aborts the caller on a nil dereference;     *)
(* nothing runs after an abort.                                            *)
(***************************************************************************)
LoaderOutcomes == [provider : BOOLEAN, failed : BOOLEAN]

NewSkillLiteral(meta, body, scripts) ==
    [Metadata |-> meta, Name |-> SkillName, Body |-> body, Scripts |-> scripts,
     Provider |-> "nil"]

\* Skill.Execute on such a Skill: AutoExecute, then the header line, which
\* reads skill.Metadata.Name
LiteralExecute(sk, args) ==
    LET r == SkillAutoExecute(sk, NewInlineProvider, args) IN
    IF r.err # NilErr THEN [aborted |-> FALSE, err |-> r.err]
    ELSE IF sk.Metadata = "nil" THEN [aborted |-> TRUE, err |-> NilErr]
    ELSE [aborted |-> FALSE, err |-> SkillExecute(sk, NewInlineProvider, args).err]

\* LazyLoadingProvider.init with a loader that returns outcome
AnyLoaderInit(p, outcome) ==
    IF p.initialized THEN [p |-> p, err |-> NilErr]
    ELSE IF outcome.failed
    THEN [p |-> p, err |-> Err("failed to load provider", <<>>, NoId)]
    ELSE [p |-> [provider |-> IF outcome.provider THEN 1 ELSE 0, initialized |-> TRUE],
          err |-> NilErr]

\* one of the six operations: init, then the operation of p.provider
AnyLoaderCall(p, outcome, op, name) ==
    LET i == AnyLoaderInit(p, outcome) IN
    IF i.err # NilErr THEN [p |-> i.p, aborted |-> FALSE, err |-> i.err]
    ELSE IF i.p.provider = 0 THEN [p |-> i.p, aborted |-> TRUE, err |-> NilErr]
    ELSE [p |-> i.p, aborted |-> FALSE, err |-> LoadedCall(i.p.provider, op, name).err]

NoFacCall == [op |-> "none", name |-> <<>>, args |-> "", aborted |-> FALSE, err |-> NilErr]

FacIdle ==
    /\ fskill = NewSkillLiteral("set", <<>>, <<>>)
    /\ flazy = NewLazyLoadingProvider
    /\ facRet = NoFacCall

\* &Skill{Metadata: ..., Body: ..., Scripts: ...}
FacNewSkill(meta, body, scripts) ==
    /\ ~facRet.aborted
    /\ fskill' = NewSkillLiteral(meta, body, scripts)
    /\ facRet' = NoFacCall
    /\ UNCHANGED <<flazy, notFac>>

\* NewLazyLoadingProvider(loader)
FacNewLazy ==
    /\ ~facRet.aborted
    /\ flazy' = NewLazyLoadingProvider
    /\ facRet' = [NoFacCall EXCEPT !.op = "NewLazyLoadingProvider"]
    /\ UNCHANGED <<fskill, notFac>>

\* Skill.Glance: json.Marshal of the Metadata, nil or not
FacGlance ==
    /\ ~facRet.aborted
    /\ facRet' = [op |-> "Glance", name |-> <<>>, args |-> "", aborted |-> FALSE,
                  err |-> NilErr]
    /\ UNCHANGED <<fskill, flazy, notFac>>

FacUseScript(name, args) ==
    /\ ~facRet.aborted
    /\ facRet' = [op |-> "UseScript", name |-> name, args |-> args, aborted |-> FALSE,
                  err |-> SkillUseScriptInline(fskill, name, args).err]
    /\ UNCHANGED <<fskill, flazy, notFac>>

FacAutoExecute(args) ==
    /\ ~facRet.aborted
    /\ facRet' = [op |-> "AutoExecute", name |-> <<>>, args |-> args, aborted |-> FALSE,
                  err |-> SkillAutoExecute(fskill, NewInlineProvider, args).err]
    /\ UNCHANGED <<fskill, flazy, notFac>>

FacExecute(args) ==
    /\ ~facRet.aborted
    /\ LET r == LiteralExecute(fskill, args) IN
         facRet' = [op |-> "Execute", name |-> <<>>, args |-> args,
                    aborted |-> r.aborted, err |-> r.err]
    /\ UNCHANGED <<fskill, flazy, notFac>>

FacLazyAccess(op, name, outcome) ==
    /\ ~facRet.aborted
    /\ LET r == AnyLoaderCall(flazy, outcome, op, OpName(op, name)) IN
         /\ flazy' = r.p
         /\ facRet' = [op |-> op, name |-> OpName(op, name), args |-> "",
                       aborted |-> r.aborted, err |-> r.err]
    /\ UNCHANGED <<fskill, notFac>>

FacNext ==
    \/ \E meta \in {"nil", "set"}, body \in {<<>>, EmbedScript(NameA), EmbedScript(NameB)},
          scripts \in {<<>>, <<NewScript("skill", 1, NameA, FALSE)>>,
                       <<NewScript("skill", 1, NameA, TRUE)>>} :
          FacNewSkill(meta, body, scripts)
    \/ FacNewLazy
    \/ FacGlance
    \/ \E n \in Names, a \in Args : FacUseScript(n, a)
    \/ \E a \in Args : FacAutoExecute(a)
    \/ \E a \in Args : FacExecute(a)
    \/ \E op \in LazyOps, n \in Names, o \in LoaderOutcomes : FacLazyAccess(op, n, o)

\* C27: every operation on a Skill or a provider that a caller can
\* construct returns; a failure is an error value, never an abort.
C27_NeverAborts == ~facRet.aborted

\* the operations other than Execute on a Skill without Metadata and other
\* than the accesses of a lazy provider loaded with (nil, nil) return
C27_OthersReturn ==
    facRet.aborted =>
      \/ facRet.op = "Execute" /\ fskill.Metadata = "nil"
      \/ facRet.op \in LazyOps /\ flazy = [provider |-> 0, initialized |-> TRUE]

(***************************************************************************)
(* SkillManager over a store.  The store holds a version of each skill and *)
(* returns a fresh copy, without Provider, on every Get.  A Skill object   *)
(* is a record of its identity, the version it holds and its Provider; the *)
(* identities are the numbers 1, 2, ... in the order the objects are made, *)
(* so that the same object is the same number.                             *)
(***************************************************************************)
MaxObjs == 2

\* the versions of a skill that are written to the store
StoreVersions == {1, 2}

Providers == {"p", "q"}
GetSkillOps == {"GetSkill"}
NilSkill == [id |-> 0, version |-> 0, provider |-> "nil"]

NewSkillManager(hasStore) ==
    [store |-> hasStore, cache |-> [n \in Names |-> NilSkill],
     providers |-> [n \in Names |-> "unset"]]

\* store.Get: a copy of the stored skill, as the object number made + 1
StoreGet(st, made, name) ==
    IF st[name] = 0
    THEN [skill |-> NilSkill, err |-> "skill not found"]
    ELSE [skill |-> [id |-> made + 1, version |-> st[name], provider |-> "nil"],
          err |-> "nil"]

\* the skill with the provider configured for name, if there is one
AttachProvider(m, name, sk) ==
    IF m.providers[name] # "unset"
    THEN [sk EXCEPT !.provider = m.providers[name]]
    ELSE sk

\* a GetSkill that goes to the store whether or not the name is cached
ManagerGetSkillNoCache(m, st, made, name) ==
    IF ~m.store
    THEN [m |-> m, skill |-> NilSkill, err |-> "skill store not configured", reads |-> 0]
    ELSE LET g == StoreGet(st, made, name) IN
         IF g.err # "nil"
         THEN [m |-> m, skill |-> NilSkill, err |-> "failed to load skill from store",
               reads |-> 1]
         ELSE [m |-> [m EXCEPT !.cache[name] = AttachProvider(m, name, g.skill)],
               skill |-> AttachProvider(m, name, g.skill), err |-> "nil", reads |-> 1]

\* SkillManager.GetSkill: the manager afterwards, (skill, err), and the
\* number of reads of the store
ManagerGetSkill(m, st, made, name) ==
    IF m.cache[name] # NilSkill
    THEN [m |-> m, skill |-> m.cache[name], err |-> "nil", reads |-> 0]
    ELSE IF ~m.store
    THEN [m |-> m, skill |-> NilSkill, err |-> "skill store not configured", reads |-> 0]
    ELSE LET g == StoreGet(st, made, name) IN
         IF g.err # "nil"
         THEN [m |-> m, skill |-> NilSkill, err |-> "failed to load skill from store",
               reads |-> 1]
         ELSE [m |-> [m EXCEPT !.cache[name] = AttachProvider(m, name, g.skill)],
               skill |-> AttachProvider(m, name, g.skill), err |-> "nil", reads |-> 1]

\* a ReloadSkill that returns what it loaded and leaves the cache as it was
ManagerReloadSkillKeepCache(m, st, made, name) ==
    IF ~m.store
    THEN [m |-> m, skill |-> NilSkill, err |-> "skill store not configured", reads |-> 0]
    ELSE LET g == StoreGet(st, made, name) IN
         IF g.err # "nil"
         THEN [m |-> m, skill |-> NilSkill, err |-> "failed to reload skill", reads |-> 1]
         ELSE [m |-> m, skill |-> AttachProvider(m, name, g.skill), err |-> "nil",
               reads |-> 1]

\* SkillManager.ReloadSkill
ManagerReloadSkill(m, st, made, name) ==
    IF ~m.store
    THEN [m |-> m, skill |-> NilSkill, err |-> "skill store not configured", reads |-> 0]
    ELSE LET g == StoreGet(st, made, name) IN
         IF g.err # "nil"
         THEN [m |-> m, skill |-> NilSkill, err |-> "failed to reload skill", reads |-> 1]
         ELSE [m |-> [m EXCEPT !.cache[name] = AttachProvider(m, name, g.skill)],
               skill |-> AttachProvider(m, name, g.skill), err |-> "nil", reads |-> 1]

\* SkillManager.SetResourceProvider: the providers table, and the Provider
\* of the cached object where there is one
ManagerSetResourceProvider(m, name, p) ==
    [m EXCEPT !.providers[name] = p,
              !.cache[name] = IF @ # NilSkill THEN [@ EXCEPT !.provider = p] ELSE @]

\* SkillManager.RegisterSkill of a Skill with a Metadata and a name
ManagerRegisterSkill(m, name, sk) == [m EXCEPT !.cache[name] = sk]

\* a DeleteSkill that deletes from the store only
ManagerDeleteSkillStoreOnly(m, name) == m

\* SkillManager.DeleteSkill, once store.Delete has succeeded
ManagerDeleteSkill(m, name) == [m EXCEPT !.cache[name] = NilSkill]

\* SkillManager.ClearCache
ManagerClearCache(m) == [m EXCEPT !.cache = [n \in Names |-> NilSkill]]

NoMHist == [got |-> [n \in Names |-> 0], reloaded |-> [n \in Names |-> 0]]

NoMgrCall ==
    [op |-> "none", name |-> <<>>, skill |-> NilSkill, err |-> "nil", reads |-> 0,
     prevGot |-> 0, prevReloaded |-> 0, prevCached |-> 0,
     fresh |-> FALSE, cacheKept |-> TRUE, othersKept |-> TRUE]

\* the record of a call: what it returned, what the history and the cache
\* held for the name before it, whether the returned object was made by it,
\* and whether it left the cache, and the entries of other names, as found
MgrCall(op, name, sk, err, reads, cacheAfter) ==
    [op |-> op, name |-> name, skill |-> sk, err |-> err, reads |-> reads,
     prevGot |-> mhist.got[name], prevReloaded |-> mhist.reloaded[name],
     prevCached |-> mgr.cache[name].id,
     fresh |-> sk.id > mobjs,
     cacheKept |-> cacheAfter = mgr.cache,
     othersKept |-> \A n \in Names \ {name} : cacheAfter[n] = mgr.cache[n]]

\* the record of a call that returns no skill
MgrDone(op, name, err) == [NoMgrCall EXCEPT !.op = op, !.name = name, !.err = err]

MgrIdle ==
    /\ mgr = NewSkillManager(TRUE)
    /\ mstore = [n \in Names |-> 0]
    /\ mobjs = 0
    /\ mhist = NoMHist
    /\ mgrRet = NoMgrCall

\* NewSkillManager(store) over an empty store, or NewSkillManager(nil)
MgrNew(hasStore) ==
    /\ mgr' = NewSkillManager(hasStore)
    /\ mstore' = [n \in Names |-> 0]
    /\ mobjs' = 0
    /\ mhist' = NoMHist
    /\ mgrRet' = [NoMgrCall EXCEPT !.op = "NewSkillManager"]
    /\ UNCHANGED notMgr

\* the store is written behind the manager's back: store.Put of a version
StorePut(name, v) ==
    /\ mgr.store
    /\ mstore' = [mstore EXCEPT ![name] = v]
    /\ mgrRet' = MgrDone("store.Put", name, "nil")
    /\ UNCHANGED <<mgr, mobjs, mhist, notMgr>>

\* GetSkill, by a caller or as the first step of the manager's UseScript and
\* ReadReference
MgrGetSkill(op, name) ==
    /\ LET r == ManagerGetSkill(mgr, mstore, mobjs, name) IN
         /\ r.skill.id <= MaxObjs
         /\ mgr' = r.m
         /\ mobjs' = IF r.skill.id > mobjs THEN r.skill.id ELSE mobjs
         /\ mhist' = IF r.err = "nil" THEN [mhist EXCEPT !.got[name] = r.skill.id]
                     ELSE mhist
         /\ mgrRet' = MgrCall(op, name, r.skill, r.err, r.reads, r.m.cache)
    /\ UNCHANGED <<mstore, notMgr>>

MgrReloadSkill(name) ==
    /\ LET r == ManagerReloadSkill(mgr, mstore, mobjs, name) IN
         /\ r.skill.id <= MaxObjs
         /\ mgr' = r.m
         /\ mobjs' = IF r.skill.id > mobjs THEN r.skill.id ELSE mobjs
         /\ mhist' = [got |-> NoMHist.got,
                      reloaded |-> IF r.err = "nil"
                                   THEN [mhist.reloaded EXCEPT ![name] = r.skill.id]
                                   ELSE mhist.reloaded]
         /\ mgrRet' = MgrCall("ReloadSkill", name, r.skill, r.err, r.reads, r.m.cache)
    /\ UNCHANGED <<mstore, notMgr>>

\* RegisterSkill of a Skill the caller made, without Provider; valid is
\* whether it is not nil and has a Metadata with a name
MgrRegisterSkill(name, v, valid) ==
    /\ mobjs < MaxObjs
    /\ mobjs' = IF valid THEN mobjs + 1 ELSE mobjs
    /\ mgr' = IF valid
              THEN ManagerRegisterSkill(mgr, name, [id |-> mobjs + 1, version |-> v,
                                                    provider |-> "nil"])
              ELSE mgr
    /\ mhist' = NoMHist
    /\ mgrRet' = MgrDone("RegisterSkill", name,
                         IF valid THEN "nil" ELSE "skill metadata name cannot be empty")
    /\ UNCHANGED <<mstore, notMgr>>

\* SaveSkill of a Skill the caller made, without Provider: store.Put, then
\* the cache
MgrSaveSkill(name, v) ==
    /\ mobjs < MaxObjs
    /\ mobjs' = IF mgr.store THEN mobjs + 1 ELSE mobjs
    /\ mgr' = IF mgr.store
              THEN ManagerRegisterSkill(mgr, name, [id |-> mobjs + 1, version |-> v,
                                                    provider |-> "nil"])
              ELSE mgr
    /\ mstore' = IF mgr.store THEN [mstore EXCEPT ![name] = v] ELSE mstore
    /\ mhist' = NoMHist
    /\ mgrRet' = MgrDone("SaveSkill", name,
                         IF mgr.store THEN "nil" ELSE "skill store not configured")
    /\ UNCHANGED notMgr

\* DeleteSkill: store.Delete, then the cache; the record keeps the object
\* that was cached for the name before the call
MgrDeleteSkill(name) ==
    /\ mgr' = IF mgr.store /\ mstore[name] # 0 THEN ManagerDeleteSkill(mgr, name) ELSE mgr
    /\ mstore' = IF mgr.store THEN [mstore EXCEPT ![name] = 0] ELSE mstore
    /\ mhist' = NoMHist
    /\ mgrRet' = [MgrDone("DeleteSkill", name,
                          IF ~mgr.store THEN "skill store not configured"
                          ELSE IF mstore[name] = 0 THEN "failed to delete skill"
                          ELSE "nil")
                  EXCEPT !.prevCached = mgr.cache[name].id,
                         !.cacheKept = (mgr'.cache = mgr.cache),
                         !.othersKept = \A n \in Names \ {name} :
                                           mgr'.cache[n] = mgr.cache[n]]
    /\ UNCHANGED <<mobjs, notMgr>>

MgrClearCache ==
    /\ mgr' = ManagerClearCache(mgr)
    /\ mhist' = NoMHist
    /\ mgrRet' = MgrDone("ClearCache", <<>>, "nil")
    /\ UNCHANGED <<mstore, mobjs, notMgr>>

MgrSetResourceProvider(name, p) ==
    /\ mgr' = ManagerSetResourceProvider(mgr, name, p)
    /\ mgrRet' = MgrDone("SetResourceProvider", name, "nil")
    /\ UNCHANGED <<mstore, mobjs, mhist, notMgr>>

MgrNext ==
    \/ \E hasStore \in BOOLEAN : MgrNew(hasStore)
    \/ \E n \in Names, v \in StoreVersions : StorePut(n, v)
    \/ \E op \in GetSkillOps, n \in Names : MgrGetSkill(op, n)
    \/ \E n \in Names : MgrReloadSkill(n)
    \/ \E n \in Names, v \in StoreVersions, valid \in BOOLEAN :
          MgrRegisterSkill(n, v, valid)
    \/ \E n \in Names, v \in StoreVersions : MgrSaveSkill(n, v)
    \/ \E n \in Names : MgrDeleteSkill(n)
    \/ MgrClearCache
    \/ \E n \in Names, p \in Providers : MgrSetResourceProvider(n, p)

(***************************************************************************)
(* Properties of SkillManager                                              *)
(***************************************************************************)
\* C28: a GetSkill of a name that an earlier GetSkill returned an object
\* for, with no ReloadSkill, SaveSkill, RegisterSkill, DeleteSkill or
\* ClearCache since, returns that same object without reading the store; a
\* GetSkill reads the store at most once; a GetSkill that fails leaves the
\* cache as it was, without an entry for the name.
C28_GetSkillCaches ==
    mgrRet.op \in GetSkillOps =>
      /\ mgrRet.prevGot # 0 => /\ mgrRet.err = "nil"
                               /\ mgrRet.skill.id = mgrRet.prevGot
                               /\ mgrRet.reads = 0
      /\ mgrRet.reads <= 1
      /\ mgrRet.err = "nil" => mgr.cache[mgrRet.name] = mgrRet.skill
      /\ mgrRet.err # "nil" => /\ mgrRet.cacheKept
                               /\ mgr.cache[mgrRet.name] = NilSkill
                               /\ mgrRet.skill = NilSkill

\* a second GetSkill returns the object of the first although the store
\* holds another version by now
C28_Witness ==
    /\ mgrRet.op = "GetSkill"
    /\ mgrRet.prevGot # 0
    /\ mgrRet.skill.id = mgrRet.prevGot
    /\ mgrRet.reads = 0
    /\ mgrRet.skill.version # mstore[mgrRet.name]
    /\ mstore[mgrRet.name] # 0

\* C29: once SetResourceProvider(n, p) has returned, every successful
\* GetSkill(n) and ReloadSkill(n) returns a skill whose provider is p.
C29_ProviderAttached ==
    (mgrRet.op \in GetSkillOps \cup {"ReloadSkill"} /\ mgrRet.err = "nil"
     /\ mgr.providers[mgrRet.name] # "unset")
      => mgrRet.skill.provider = mgr.providers[mgrRet.name]

\* the same for the skills the manager loaded from the store itself
C29_LoadedHaveProvider ==
    (mgrRet.op \in GetSkillOps \cup {"ReloadSkill"} /\ mgrRet.err = "nil"
     /\ mgr.providers[mgrRet.name] # "unset" /\ mgrRet.fresh)
      => mgrRet.skill.provider = mgr.providers[mgrRet.name]

\* C30: a ReloadSkill that succeeds returns a new object holding the
\* store's version and makes it the cached entry, and the next GetSkill
\* returns that object; a ReloadSkill that fails leaves the cache as it was.
C30_ReloadReplaces ==
    /\ (mgrRet.op = "ReloadSkill" /\ mgrRet.err = "nil") =>
         /\ mgrRet.fresh
         /\ mgrRet.skill.id # mgrRet.prevCached
         /\ mgrRet.skill.version = mstore[mgrRet.name]
         /\ mgr.cache[mgrRet.name] = mgrRet.skill
         /\ mgrRet.othersKept
    /\ (mgrRet.op = "ReloadSkill" /\ mgrRet.err # "nil") =>
         /\ mgrRet.cacheKept
         /\ mgrRet.skill = NilSkill
    /\ (mgrRet.op \in GetSkillOps /\ mgrRet.prevReloaded # 0) =>
         /\ mgrRet.err = "nil"
         /\ mgrRet.skill.id = mgrRet.prevReloaded
         /\ mgrRet.reads = 0

\* a GetSkill after a ReloadSkill that replaced a cached object, with the
\* store written since
C30_Witness ==
    /\ mgrRet.op = "GetSkill"
    /\ mgrRet.prevReloaded # 0
    /\ mgrRet.skill.id = mgrRet.prevReloaded
    /\ mgrRet.skill.id > 1
    /\ mgrRet.skill.version # mstore[mgrRet.name]

(***************************************************************************)
(* Properties of SkillManager.DeleteSkill                                  *)
(***************************************************************************)
\* C31: a DeleteSkill that succeeds leaves neither the store nor the cache
\* with an entry for the name and leaves the entries of the other names as
\* they were, and a GetSkill of that name right after it fails; a
\* DeleteSkill that fails, for want of a store or because the store's
\* delete failed, leaves the cache and the store as they were.
C31_DeleteSkill ==
    /\ [](mgrRet.op = "DeleteSkill" /\ mgrRet.err = "nil"
            => /\ mstore[mgrRet.name] = 0
               /\ mgr.cache[mgrRet.name] = NilSkill
               /\ mgrRet.othersKept)
    /\ [](mgrRet.op = "DeleteSkill" /\ mgrRet.err # "nil" => mgrRet.cacheKept)
    /\ [][(mgrRet'.op = "DeleteSkill" /\ mgrRet'.err # "nil")
            => mgr' = mgr /\ mstore' = mstore]_vars
    /\ [][(mgrRet.op = "DeleteSkill" /\ mgrRet.err = "nil"
           /\ mgrRet'.op \in GetSkillOps /\ mgrRet'.name = mgrRet.name)
            => /\ mgrRet'.err = "failed to load skill from store"
               /\ mgrRet'.skill = NilSkill
               /\ mgrRet'.reads = 1]_vars

\* a DeleteSkill has removed a skill that was cached
C31_Witness ==
    /\ mgrRet.op = "DeleteSkill"
    /\ mgrRet.err = "nil"
    /\ mgrRet.prevCached # 0
    /\ \E n \in Names \ {mgrRet.name} : mgr.cache[n] # NilSkill

\* the store's delete has failed for a skill that is cached
C31_FailedDelete ==
    /\ mgrRet.op = "DeleteSkill"
    /\ mgrRet.err = "failed to delete skill"
    /\ mgr.cache[mgrRet.name] # NilSkill

(***************************************************************************)
(* Concurrent Puts into one MemoryStore.  Caller t puts a skill under a    *)
(* name of its own, written t; a stored skill is written as the number of  *)
(* the caller that put it.  Put validates its argument, takes the write    *)
(* lock, assigns a copy to the map and releases the lock; GetAll takes the *)
(* read lock, copies the map and releases the lock.  A write of a Go map   *)
(* takes time; a write or a read of the map by another caller during it is *)
(* a data race: the runtime may stop the program, the other write may be   *)
(* lost, and the read may see an entry that is partly written.             *)
(***************************************************************************)
NewMemoryStore == [t \in Threads |-> 0]

NoMutex == [writer |-> 0, readers |-> 0]

\* a Lock that does not wait
MutexLockNoWait(mu) == TRUE

\* s.mu.Lock() returns: nobody holds the mutex
MutexLock(mu) == mu.writer = 0 /\ mu.readers = 0

\* s.mu.RLock() returns: nobody holds the mutex for writing
MutexRLock(mu) == mu.writer = 0

StartPut == [pc |-> "start", err |-> "nil"]
NoSnapshot == [pc |-> "idle", seen |-> {}, torn |-> FALSE, taken |-> FALSE]

StoIdle ==
    /\ smap = NewMemoryStore
    /\ smu = NoMutex
    /\ sthr = [t \in Threads |-> StartPut]
    /\ srd = NoSnapshot
    /\ sfatal = FALSE

\* the callers in the middle of the map assignment
MapWriters == {u \in Threads : sthr[u].pc = "writing"}

\* Put is entered: if skill == nil { ... }; if skill.Metadata == nil ||
\* skill.Metadata.Name == "" { ... }
PutValidate(t, valid) ==
    /\ ~sfatal
    /\ sthr[t].pc = "start"
    /\ sthr' = [sthr EXCEPT ![t] =
                  IF valid THEN [pc |-> "lock", err |-> "nil"]
                  ELSE [pc |-> "done", err |-> "skill metadata name cannot be empty"]]
    /\ UNCHANGED <<smap, smu, srd, sfatal, notSto>>

\* s.mu.Lock()
PutLock(t) ==
    /\ ~sfatal
    /\ sthr[t].pc = "lock"
    /\ MutexLock(smu)
    /\ smu' = [smu EXCEPT !.writer = t]
    /\ sthr' = [sthr EXCEPT ![t].pc = "write"]
    /\ UNCHANGED <<smap, srd, sfatal, notSto>>

\* s.skills[key] = s.copySkill(skill), entered: during a write by another
\* caller the runtime stops the program, or does not notice
PutWriteBegin(t, outcome) ==
    /\ ~sfatal
    /\ sthr[t].pc = "write"
    /\ outcome \in (IF MapWriters = {} THEN {"ok"} ELSE {"ok", "fatal"})
    /\ sfatal' = (outcome = "fatal")
    /\ sthr' = IF outcome = "fatal" THEN sthr ELSE [sthr EXCEPT ![t].pc = "writing"]
    /\ UNCHANGED <<smap, smu, srd, notSto>>

\* s.skills[key] = s.copySkill(skill), completed: during a write by another
\* caller the runtime stops the program, or this write is lost, or neither
PutWriteEnd(t, outcome) ==
    /\ ~sfatal
    /\ sthr[t].pc = "writing"
    /\ outcome \in (IF MapWriters = {t} THEN {"ok"} ELSE {"ok", "fatal", "lost"})
    /\ sfatal' = (outcome = "fatal")
    /\ smap' = IF outcome = "ok" THEN [smap EXCEPT ![t] = t] ELSE smap
    /\ sthr' = IF outcome = "fatal" THEN sthr ELSE [sthr EXCEPT ![t].pc = "unlock"]
    /\ UNCHANGED <<smu, srd, notSto>>

\* defer s.mu.Unlock(); return nil
PutUnlock(t) ==
    /\ ~sfatal
    /\ sthr[t].pc = "unlock"
    /\ smu' = [smu EXCEPT !.writer = IF @ = t THEN 0 ELSE @]
    /\ sthr' = [sthr EXCEPT ![t].pc = "done"]
    /\ UNCHANGED <<smap, srd, sfatal, notSto>>

\* GetAll: s.mu.RLock()
GetAllRLock ==
    /\ ~sfatal
    /\ srd.pc = "idle"
    /\ MutexRLock(smu)
    /\ smu' = [smu EXCEPT !.readers = @ + 1]
    /\ srd' = [srd EXCEPT !.pc = "copy"]
    /\ UNCHANGED <<smap, sthr, sfatal, notSto>>

\* GetAll: for k, v := range s.skills { result[k] = s.copySkill(v) }
\* during a write of the map the read races with it: the runtime stops the
\* program, or the read sees the entries with or without those being
\* written, whole or in part
GetAllCopy(outcome, ahead, torn) ==
    /\ ~sfatal
    /\ srd.pc = "copy"
    /\ outcome \in (IF MapWriters = {} THEN {"ok"} ELSE {"ok", "fatal"})
    /\ ahead \subseteq MapWriters
    /\ torn => ahead # {}
    /\ sfatal' = (outcome = "fatal")
    /\ srd' = IF outcome = "fatal" THEN srd
              ELSE [pc |-> "unlock", seen |-> {t \in Threads : smap[t] # 0} \cup ahead,
                    torn |-> torn, taken |-> TRUE]
    /\ UNCHANGED <<smap, smu, sthr, notSto>>

\* GetAll: defer s.mu.RUnlock(); return result
GetAllRUnlock ==
    /\ ~sfatal
    /\ srd.pc = "unlock"
    /\ smu' = [smu EXCEPT !.readers = @ - 1]
    /\ srd' = [srd EXCEPT !.pc = "idle"]
    /\ UNCHANGED <<smap, sthr, sfatal, notSto>>

StoNext ==
    \/ \E t \in Threads, valid \in BOOLEAN : PutValidate(t, valid)
    \/ \E t \in Threads : PutLock(t)
    \/ \E t \in Threads, o \in {"ok", "fatal"} : PutWriteBegin(t, o)
    \/ \E t \in Threads, o \in {"ok", "fatal", "lost"} : PutWriteEnd(t, o)
    \/ \E t \in Threads : PutUnlock(t)
    \/ GetAllRLock
    \/ \E o \in {"ok", "fatal"}, ahead \in SUBSET Threads, torn \in BOOLEAN :
          GetAllCopy(o, ahead, torn)
    \/ GetAllRUnlock

(***************************************************************************)
(* Properties of concurrent Puts                                           *)
(***************************************************************************)
\* the callers whose Put has returned nil
PutDone == {t \in Threads : sthr[t].pc = "done" /\ sthr[t].err = "nil"}

\* C32: under every interleaving of the Puts and of GetAll the program is
\* not stopped; once every Put has returned, the store holds exactly the
\* skills of the Puts that returned nil, each under its own name; at most
\* one caller is inside the map assignment; and a snapshot GetAll has taken
\* holds no partly written entry, only skills whose Put has finished its
\* assignment.
C32_NoPutLost ==
    /\ ~sfatal
    /\ \A t \in PutDone : smap[t] = t
    /\ (\A t \in Threads : sthr[t].pc = "done")
         => \A t \in Threads : smap[t] = (IF t \in PutDone THEN t ELSE 0)
    /\ Cardinality(MapWriters) <= 1
    /\ ~srd.torn
    /\ srd.seen \subseteq {t \in Threads : smap[t] = t}

\* every caller's Put has returned nil, and a GetAll that ran while they
\* were under way saw some of the skills but not all
C32_Witness ==
    /\ PutDone = Threads
    /\ \A t \in Threads : smap[t] = t
    /\ srd.taken
    /\ srd.seen # {}
    /\ srd.seen # Threads

(***************************************************************************)
(* The copies a MemoryStore makes.  A Skill object holds a pointer to its  *)
(* SkillMetadata, its Body, and three lists whose elements are pointers    *)
(* (Scripts holds interface values, here of pointer type).  The objects    *)
(* pointed to live at addresses; copySkill makes a new Skill object with   *)
(* the same Metadata pointer, the same Body and new lists of the same      *)
(* element pointers.  Addresses are numbered in the order in which the     *)
(* stored Skill and then the caller's Skill point to them.                 *)
(***************************************************************************)
MaxListLen == 1

ListKinds == {"Scripts", "References", "Assets"}
CellValues == {1, 2}

\* the addresses: enough for the objects two Skill objects can point to and
\* one more
Cells == 1 .. 2 * MaxListLen + 1

NilObject == [Metadata |-> 0, Body |-> 0, Lists |-> [k \in ListKinds |-> <<>>]]
NoContents == [Metadata |-> 0, Body |-> 0, Lists |-> [k \in ListKinds |-> <<>>]]
EmptyHeap == [meta |-> [c \in Cells |-> 0], elem |-> [k \in ListKinds |-> [c \in Cells |-> 0]]]

\* the contents of a Skill as a reader of the object sees them
Contents(h, obj) ==
    IF obj = NilObject THEN NoContents
    ELSE [Metadata |-> h.meta[obj.Metadata], Body |-> obj.Body,
          Lists |-> [k \in ListKinds |->
                       [i \in 1 .. Len(obj.Lists[k]) |-> h.elem[k][obj.Lists[k][i]]]]]

\* a Get that hands out the stored Skill object itself
copySkillNone(obj) == obj

\* MemoryStore.copySkill: the pointers are copied, the lists are made anew
copySkill(obj) ==
    [Metadata |-> obj.Metadata, Body |-> obj.Body,
     Lists |-> [k \in ListKinds |-> [i \in 1 .. Len(obj.Lists[k]) |-> obj.Lists[k][i]]]]

\* the addresses two Skill objects point to, in order
MetaOrder(a, b) == SelectSeq(<<b.Metadata, a.Metadata>>, LAMBDA c : c # 0)
ElemOrder(k, a, b) == b.Lists[k] \o a.Lists[k]
Used(order) == {order[i] : i \in 1 .. Len(order)}

\* the address a newly made object gets
NewCell(order) == CHOOSE c \in Cells \ Used(order) : \A e \in Cells \ Used(order) : c <= e

\* the number of an address in the order of first use
Rank(order, c) ==
    LET first == CHOOSE i \in 1 .. Len(order) :
                    order[i] = c /\ \A j \in 1 .. i - 1 : order[j] # c
    IN Cardinality({order[j] : j \in 1 .. first})

\* the heap and the two Skill objects with the addresses renumbered, and
\* without the objects nothing points to any more
Settle(h, a, b) ==
    LET mo == MetaOrder(a, b)
        eo(k) == ElemOrder(k, a, b)
        Renumbered(obj) ==
            IF obj = NilObject THEN NilObject
            ELSE [Metadata |-> Rank(mo, obj.Metadata), Body |-> obj.Body,
                  Lists |-> [k \in ListKinds |->
                               [i \in 1 .. Len(obj.Lists[k]) |->
                                  Rank(eo(k), obj.Lists[k][i])]]]
        At(order, vals, c) ==
            IF \E d \in Used(order) : Rank(order, d) = c
            THEN vals[CHOOSE d \in Used(order) : Rank(order, d) = c]
            ELSE 0
    IN [heap |-> [meta |-> [c \in Cells |-> At(mo, h.meta, c)],
                  elem |-> [k \in ListKinds |->
                              [c \in Cells |-> At(eo(k), h.elem[k], c)]]],
        held |-> Renumbered(a),
        stored |-> Renumbered(b)]

\* the scenarios are those in which the lists of one kind at most have
\* elements, in the caller's Skill and in the stored one
OnlyKind(k) ==
    \A j \in ListKinds \ {k} : cheld.Lists[j] = <<>> /\ cstored.Lists[j] = <<>>

NoPut == [contents |-> NoContents, written |-> FALSE]
NoCpCall == [op |-> "none", err |-> "nil", got |-> NoContents]

CpIdle ==
    /\ cheap = [EmptyHeap EXCEPT !.meta[1] = 1]
    /\ cheld = [NilObject EXCEPT !.Metadata = 1, !.Body = 1]
    /\ cstored = NilObject
    /\ cput = NoPut
    /\ cpRet = NoCpCall

\* the heap and the two Skill objects after a step
CpSettle(h, a, b) ==
    LET s == Settle(h, a, b) IN
    /\ cheap' = s.heap
    /\ cheld' = s.held
    /\ cstored' = s.stored

\* NewMemoryStore(), and a Skill the caller makes: &schema.Skill{Metadata:
\* &schema.SkillMetadata{...}, Body: ...}
CpNew(meta, body) ==
    /\ CpSettle([EmptyHeap EXCEPT !.meta[1] = meta],
                [NilObject EXCEPT !.Metadata = 1, !.Body = body], NilObject)
    /\ cput' = NoPut
    /\ cpRet' = [NoCpCall EXCEPT !.op = "NewMemoryStore"]
    /\ UNCHANGED notCp

\* store.Put(ctx, skill) with the caller's Skill, or with nil
CpPut(isNil) ==
    /\ CpSettle(cheap, cheld, IF isNil THEN cstored ELSE copySkill(cheld))
    /\ cput' = IF isNil THEN cput
               ELSE [contents |-> Contents(cheap, cheld), written |-> FALSE]
    /\ cpRet' = [NoCpCall EXCEPT !.op = "Put",
                                 !.err = IF isNil THEN "skill cannot be nil" ELSE "nil"]
    /\ UNCHANGED notCp

\* skill, err := store.Get(ctx, name): the caller goes on with what it got
CpGet ==
    /\ LET got == IF cstored = NilObject THEN cheld ELSE copySkill(cstored) IN
         /\ CpSettle(cheap, got, cstored)
         /\ cpRet' = IF cstored = NilObject
                     THEN [op |-> "Get", err |-> "skill not found", got |-> NoContents]
                     ELSE [op |-> "Get", err |-> "nil", got |-> Contents(cheap, got)]
    /\ UNCHANGED <<cput, notCp>>

\* skill.Body = v
CpSetBody(v) ==
    /\ CpSettle(cheap, [cheld EXCEPT !.Body = v], cstored)
    /\ cpRet' = [NoCpCall EXCEPT !.op = "change"]
    /\ UNCHANGED <<cput, notCp>>

\* skill.Metadata = &schema.SkillMetadata{...}
CpSetMetadata(v) ==
    /\ LET c == NewCell(MetaOrder(cheld, cstored)) IN
         CpSettle([cheap EXCEPT !.meta[c] = v], [cheld EXCEPT !.Metadata = c], cstored)
    /\ cpRet' = [NoCpCall EXCEPT !.op = "change"]
    /\ UNCHANGED <<cput, notCp>>

\* skill.Metadata.Description = v
CpWriteMetadata(v) ==
    /\ CpSettle([cheap EXCEPT !.meta[cheld.Metadata] = v], cheld, cstored)
    /\ cput' = IF cstored.Metadata = cheld.Metadata /\ cheap.meta[cheld.Metadata] # v
               THEN [cput EXCEPT !.written = TRUE] ELSE cput
    /\ cpRet' = [NoCpCall EXCEPT !.op = "change"]
    /\ UNCHANGED notCp

\* skill.References = append(skill.References, &resources.Reference{...}),
\* and the same for Scripts and Assets; the lists the store makes have no
\* spare capacity, so that append makes a new list
CpAppend(k, v) ==
    /\ OnlyKind(k)
    /\ Len(cheld.Lists[k]) < MaxListLen
    /\ LET c == NewCell(ElemOrder(k, cheld, cstored)) IN
         CpSettle([cheap EXCEPT !.elem[k][c] = v],
                  [cheld EXCEPT !.Lists[k] = Append(@, c)], cstored)
    /\ cpRet' = [NoCpCall EXCEPT !.op = "change"]
    /\ UNCHANGED <<cput, notCp>>

\* skill.References[i] = &resources.Reference{...}
CpSetElem(k, i, v) ==
    /\ i \in 1 .. Len(cheld.Lists[k])
    /\ LET c == NewCell(ElemOrder(k, cheld, cstored)) IN
         CpSettle([cheap EXCEPT !.elem[k][c] = v],
                  [cheld EXCEPT !.Lists[k][i] = c], cstored)
    /\ cpRet' = [NoCpCall EXCEPT !.op = "change"]
    /\ UNCHANGED <<cput, notCp>>

\* skill.References = skill.References[:0]
CpTruncate(k) ==
    /\ cheld.Lists[k] # <<>>
    /\ CpSettle(cheap, [cheld EXCEPT !.Lists[k] = <<>>], cstored)
    /\ cpRet' = [NoCpCall EXCEPT !.op = "change"]
    /\ UNCHANGED <<cput, notCp>>

\* skill.References[i].Body = v
CpWriteElem(k, i, v) ==
    /\ i \in 1 .. Len(cheld.Lists[k])
    /\ CpSettle([cheap EXCEPT !.elem[k][cheld.Lists[k][i]] = v], cheld, cstored)
    /\ cput' = IF cheap.elem[k][cheld.Lists[k][i]] # v
                  /\ \E j \in 1 .. Len(cstored.Lists[k]) :
                        cstored.Lists[k][j] = cheld.Lists[k][i]
               THEN [cput EXCEPT !.written = TRUE] ELSE cput
    /\ cpRet' = [NoCpCall EXCEPT !.op = "change"]
    /\ UNCHANGED notCp

CpNext ==
    \/ \E meta \in CellValues, body \in CellValues : CpNew(meta, body)
    \/ \E isNil \in BOOLEAN : CpPut(isNil)
    \/ CpGet
    \/ \E v \in CellValues : CpSetBody(v)
    \/ \E v \in CellValues : CpSetMetadata(v)
    \/ \E v \in CellValues : CpWriteMetadata(v)
    \/ \E k \in ListKinds, v \in CellValues : CpAppend(k, v)
    \/ \E k \in ListKinds, i \in 1 .. MaxListLen, v \in CellValues : CpSetElem(k, i, v)
    \/ \E k \in ListKinds : CpTruncate(k)
    \/ \E k \in ListKinds, i \in 1 .. MaxListLen, v \in CellValues : CpWriteElem(k, i, v)

(***************************************************************************)
(* Properties of the copies                                                *)
(***************************************************************************)
\* C33: a Get that succeeds returns a skill with the contents the skill had
\* when it was put (metadata, body and the elements of the three lists),
\* whatever the caller did since to the skill it passed to Put or to a
\* skill it got from Get.
C33_GetReturnsStored ==
    (cpRet.op = "Get" /\ cpRet.err = "nil") => cpRet.got = cput.contents

\* the same, as long as the caller has written none of the objects the
\* stored skill points to: changes of the Skill object's own fields and
\* lists do not reach the store
C33_OwnFieldsIsolated ==
    (cpRet.op = "Get" /\ cpRet.err = "nil" /\ ~cput.written)
      => cpRet.got = cput.contents

\* the store and the caller hold different Skill objects with the same
\* Metadata object
C33_SharedMetadata ==
    /\ cstored # NilObject
    /\ cstored.Metadata = cheld.Metadata
    /\ cstored.Body # cheld.Body

(***************************************************************************)
(* A Call of the HTTP transport in time.  HTTPClient.Do sends the request  *)
(* and waits for the response's status line; io.ReadAll then waits for the *)
(* body.  The Timeout of the http.Client, when it is positive, limits the  *)
(* whole exchange, the reading of the body included; a Timeout of zero     *)
(* means no limit.  The request carries the caller's context: once the     *)
(* context is cancelled, Do or the read of the body returns an error.      *)
(* Time is counted in ticks.                                               *)
(***************************************************************************)
MaxTimeout == 2

\* NewHTTPRemoteScriptClient(baseURL): Timeout: 30 * time.Second
DefaultTimeout == MaxTimeout

\* the contexts a call is entered with: one that is never cancelled, and one
\* the caller can cancel
Contexts == {"background", "live"}

NoHTTPCall ==
    [pc |-> "idle", ctx |-> "background", armed |-> FALSE, left |-> 0,
     ended |-> "none", result |-> <<>>, err |-> RemNilErr]

HttpIdle ==
    /\ hclient = [Timeout |-> DefaultTimeout]
    /\ hcall = NoHTTPCall

InFlight == hcall.pc \in {"waiting", "reading"}

\* what Call returns when the exchange ends at this point without a body
Broken == [stage |-> IF hcall.pc = "waiting" THEN "do" ELSE "read", status |-> 0,
           body |-> <<>>]

\* the call has returned what Call makes of the reply
Returned(why, reply) ==
    [hcall EXCEPT !.pc = "returned", !.ended = why,
                  !.result = HTTPCall(NameA, "", reply).result,
                  !.err = HTTPCall(NameA, "", reply).err]

\* NewHTTPRemoteScriptClient(baseURL, WithTimeout(t)), or WithHTTPClient of
\* a client with that Timeout
HttpNewClient(t) ==
    /\ ~InFlight
    /\ hclient' = [Timeout |-> t]
    /\ hcall' = NoHTTPCall
    /\ UNCHANGED notHttp

\* client.Call(ctx, name, args) is entered and the request is sent
HttpCallBegin(ctx) ==
    /\ ~InFlight
    /\ hcall' = [NoHTTPCall EXCEPT !.pc = "waiting", !.ctx = ctx,
                                   !.armed = hclient.Timeout > 0,
                                   !.left = hclient.Timeout]
    /\ UNCHANGED <<hclient, notHttp>>

\* time passes
HttpTick ==
    /\ InFlight
    /\ hcall.armed
    /\ hcall.left > 0
    /\ hcall' = [hcall EXCEPT !.left = @ - 1]
    /\ UNCHANGED <<hclient, notHttp>>

\* the Timeout has passed: Do, or the read of the body, returns an error
HttpTimeout ==
    /\ InFlight
    /\ hcall.armed
    /\ hcall.left = 0
    /\ hcall' = Returned("timeout", Broken)
    /\ UNCHANGED <<hclient, notHttp>>

\* the caller cancels the context
HttpCancel ==
    /\ InFlight
    /\ hcall.ctx = "live"
    /\ hcall' = [hcall EXCEPT !.ctx = "cancelled"]
    /\ UNCHANGED <<hclient, notHttp>>

\* the context is cancelled: Do, or the read of the body, returns an error
HttpAbort ==
    /\ InFlight
    /\ hcall.ctx = "cancelled"
    /\ hcall' = Returned("cancelled", Broken)
    /\ UNCHANGED <<hclient, notHttp>>

\* the connection fails, or breaks while the body is read
HttpFail ==
    /\ InFlight
    /\ hcall' = Returned("failed", Broken)
    /\ UNCHANGED <<hclient, notHttp>>

\* the status line and the headers arrive: Do returns the response
HttpHeaders ==
    /\ hcall.pc = "waiting"
    /\ hcall' = [hcall EXCEPT !.pc = "reading"]
    /\ UNCHANGED <<hclient, notHttp>>

\* the body has arrived: io.ReadAll returns, and Call goes on to the end
HttpBody(reply) ==
    /\ hcall.pc = "reading"
    /\ reply.stage = "response"
    /\ hcall' = Returned("response", reply)
    /\ UNCHANGED <<hclient, notHttp>>

HttpNext ==
    \/ \E t \in 0 .. MaxTimeout : HttpNewClient(t)
    \/ \E ctx \in Contexts : HttpCallBegin(ctx)
    \/ HttpTick
    \/ HttpTimeout
    \/ HttpCancel
    \/ HttpAbort
    \/ HttpFail
    \/ HttpHeaders
    \/ \E reply \in HTTPReplies : HttpBody(reply)

\* time passes, and a timer that has run out and a cancelled context take
\* effect; no response need ever arrive
HttpFairness == WF_vars(HttpTick) /\ WF_vars(HttpTimeout) /\ WF_vars(HttpAbort)

(***************************************************************************)
(* Properties of the HTTP transport in time                                *)
(***************************************************************************)
\* a call that the Timeout or the cancellation of the context has ended
\* has returned an error and no result
EndedWithError ==
    hcall.ended \in {"timeout", "cancelled"}
      => hcall.pc = "returned" /\ hcall.result = <<>> /\ hcall.err # RemNilErr

\* C34: every Call of the HTTP transport returns, whether or not a
\* response arrives; a call ended by the Timeout or by the cancellation of
\* its context returns an error and no result.
C34_NeverBlocks == (InFlight ~> ~InFlight) /\ []EndedWithError

\* the same for the calls of a client with a positive Timeout and for the
\* calls whose context is cancelled
C34_BoundedCallsReturn ==
    ((InFlight /\ (hcall.armed \/ hcall.ctx = "cancelled")) ~> ~InFlight)
    /\ []EndedWithError

\* a call without Timeout, with a context that cannot be cancelled, waits
\* for a response
C34_Unbounded ==
    /\ InFlight
    /\ ~hcall.armed
    /\ hcall.ctx = "background"

(***************************************************************************)
(* Properties of the clears and of the failed lookups of a CachingProvider *)
(***************************************************************************)
\* C35: ClearScriptCache, ClearReferenceCache and ClearAssetCache each
\* empty the cache of their kind and leave the caches of the other two
\* kinds and the delegate as they were; ClearCache empties the three caches
\* and leaves the delegate as it was.
C35_GranularClears ==
    [][/\ cacheRet'.op = "ClearKind"
          => /\ cache'[cacheRet'.kind] = EmptyCache
             /\ \A kind \in Kinds \ {cacheRet'.kind} : cache'[kind] = cache[kind]
             /\ deleg' = deleg
       /\ cacheRet'.op = "ClearCache"
          => /\ \A kind \in Kinds : cache'[kind] = EmptyCache
             /\ deleg' = deleg
      ]_vars

\* C35 witness: a per-kind clear has emptied its cache while each of the
\* other two caches holds an entry.
C35_Witness ==
    /\ cacheRet.op = "ClearKind"
    /\ cache[cacheRet.kind] = EmptyCache
    /\ hist.first[cacheRet.kind] # EmptyCache
    /\ \A kind \in Kinds \ {cacheRet.kind} : cache[kind] # EmptyCache

\* C36: a lookup that misses the cache and whose delegate fails returns the
\* delegate's failure and no value and leaves the three caches as they
\* were; a lookup of a key without an entry, whether or not an earlier
\* lookup of it failed, consults the delegate, and when the delegate defines
\* the key by then it succeeds with the delegate's value and stores it.
C36_FailuresNotStored ==
    [][/\ (cacheRet'.op = "Get" /\ cacheRet'.err # NilErr)
          => /\ cacheRet'.delegated
             /\ cacheRet'.err = CacheDelegateGet(deleg, cacheRet'.kind, cacheRet'.name).err
             /\ cacheRet'.val = 0
             /\ cache' = cache
       /\ (cacheRet.op = "Get" /\ cacheRet.err # NilErr)
          => cache[cacheRet.kind][cacheRet.name] = 0
       /\ (cacheRet'.op = "Get" /\ cache[cacheRet'.kind][cacheRet'.name] = 0
           /\ deleg[cacheRet'.kind][cacheRet'.name] # 0)
          => /\ cacheRet'.delegated
             /\ cacheRet'.err = NilErr
             /\ cacheRet'.val = deleg[cacheRet'.kind][cacheRet'.name]
             /\ cache'[cacheRet'.kind][cacheRet'.name] = cacheRet'.val
      ]_vars

\* C36 witness: a lookup has succeeded through the delegate for a key whose
\* earlier lookup, since the last clear, had failed.
C36_Witness ==
    /\ cacheRet.op = "Get"
    /\ cacheRet.err = NilErr
    /\ cacheRet.delegated
    /\ hist.calls[cacheRet.kind][cacheRet.name] >= 2
    /\ hist.afterOk[cacheRet.kind][cacheRet.name] = 0
    /\ cache[cacheRet.kind][cacheRet.name] = cacheRet.val

(***************************************************************************)
(* A SkillManager used by concurrent callers, all for the skill of one     *)
(* name.  GetSkill looks into the cache under the read lock, releases it,  *)
(* gets a copy from the store, reads m.providers without any lock, and     *)
(* writes the cache under the write lock; ReloadSkill does the same        *)
(* without the first step.  SaveSkill and DeleteSkill go to the store and  *)
(* then, under the write lock, to the cache.  RegisterSkill, ClearCache    *)
(* and SetResourceProvider run under the write lock from end to end.  A    *)
(* write of the m.providers map takes time, and a read of it by GetSkill   *)
(* or ReloadSkill during the write is a data race: the runtime may stop    *)
(* the program, or the read sees the map before or after the write.        *)
(***************************************************************************)
MaxMgrOps == 3

NoObject == [id |-> 0, provider |-> "nil"]

NewConcManager == [cache |-> NoObject, provider |-> "unset"]

AtRest == [pc |-> "rest", op |-> "none", skill |-> NoObject, err |-> "nil", p |-> "unset"]

NoMcLog == [ops |-> 0, objs |-> 0, got |-> {}, others |-> FALSE, registered |-> FALSE]

McIdle ==
    /\ cm = NewConcManager
    /\ cmstore = TRUE
    /\ cmu = 0
    /\ cmthr = [t \in Threads |-> AtRest]
    /\ cmlog = NoMcLog
    /\ cmfatal = FALSE

\* a caller can enter an operation
McCanBegin(t) ==
    /\ ~cmfatal
    /\ cmthr[t].pc = "rest"
    /\ cmlog.ops < MaxMgrOps

\* the callers in the middle of the write of m.providers
ProviderWriters == {u \in Threads : cmthr[u].pc = "setting"}

\* the operation of caller t has returned (skill, err)
McReturn(t, op, sk, err) ==
    [cmthr EXCEPT ![t] = [AtRest EXCEPT !.op = op, !.skill = sk, !.err = err]]

\* GetSkill, step 1: m.mu.RLock(); skill, ok := m.cache[name]; m.mu.RUnlock()
McGetSkillBegin(t) ==
    /\ McCanBegin(t)
    /\ cmu = 0
    /\ IF cm.cache # NoObject
       THEN /\ cmthr' = McReturn(t, "GetSkill", cm.cache, "nil")
            /\ cmlog' = [cmlog EXCEPT !.ops = @ + 1, !.got = @ \cup {cm.cache.id}]
       ELSE /\ cmthr' = [cmthr EXCEPT ![t] = [AtRest EXCEPT !.pc = "load",
                                                             !.op = "GetSkill"]]
            /\ cmlog' = [cmlog EXCEPT !.ops = @ + 1]
    /\ UNCHANGED <<cm, cmstore, cmu, cmfatal, notMc>>

\* ReloadSkill is entered: the store is configured
McReloadSkillBegin(t) ==
    /\ McCanBegin(t)
    /\ cmthr' = [cmthr EXCEPT ![t] = [AtRest EXCEPT !.pc = "load", !.op = "ReloadSkill"]]
    /\ cmlog' = [cmlog EXCEPT !.ops = @ + 1, !.others = TRUE]
    /\ UNCHANGED <<cm, cmstore, cmu, cmfatal, notMc>>

\* GetSkill and ReloadSkill: skill, err := m.store.Get(ctx, name)
McLoad(t) ==
    /\ ~cmfatal
    /\ cmthr[t].pc = "load"
    /\ IF cmstore
       THEN /\ cmthr' = [cmthr EXCEPT ![t].pc = "provider",
                                      ![t].skill = [id |-> cmlog.objs + 1,
                                                    provider |-> "nil"]]
            /\ cmlog' = [cmlog EXCEPT !.objs = @ + 1]
       ELSE /\ cmthr' = McReturn(t, cmthr[t].op, NoObject, "failed to load skill")
            /\ cmlog' = cmlog
    /\ UNCHANGED <<cm, cmstore, cmu, cmfatal, notMc>>

\* GetSkill and ReloadSkill: if provider, ok := m.providers[name]; ok {
\* skill.Provider = provider }, with no lock held
McProvider(t, outcome, seen) ==
    /\ ~cmfatal
    /\ cmthr[t].pc = "provider"
    /\ outcome \in (IF ProviderWriters = {} THEN {"ok"} ELSE {"ok", "fatal"})
    /\ seen \in {cm.provider} \cup {cmthr[u].p : u \in ProviderWriters}
    /\ cmfatal' = (outcome = "fatal")
    /\ cmthr' = IF outcome = "fatal" THEN cmthr
                ELSE [cmthr EXCEPT ![t].pc = "cache",
                                   ![t].skill.provider = IF seen # "unset" THEN seen ELSE @]
    /\ UNCHANGED <<cm, cmstore, cmu, cmlog, notMc>>

\* GetSkill and ReloadSkill: m.mu.Lock(); m.cache[name] = skill;
\* m.mu.Unlock(); return skill, nil
McCache(t) ==
    /\ ~cmfatal
    /\ cmthr[t].pc = "cache"
    /\ cmu = 0
    /\ cm' = [cm EXCEPT !.cache = cmthr[t].skill]
    /\ cmthr' = McReturn(t, cmthr[t].op, cmthr[t].skill, "nil")
    /\ cmlog' = IF cmthr[t].op = "GetSkill"
                THEN [cmlog EXCEPT !.got = @ \cup {cmthr[t].skill.id}]
                ELSE cmlog
    /\ UNCHANGED <<cmstore, cmu, cmfatal, notMc>>

\* RegisterSkill of a Skill the caller made, without Provider
McRegisterSkill(t) ==
    /\ McCanBegin(t)
    /\ cmu = 0
    /\ cm' = [cm EXCEPT !.cache = [id |-> cmlog.objs + 1, provider |-> "nil"]]
    /\ cmthr' = McReturn(t, "RegisterSkill", NoObject, "nil")
    /\ cmlog' = [cmlog EXCEPT !.ops = @ + 1, !.objs = @ + 1, !.others = TRUE,
                              !.registered = TRUE]
    /\ UNCHANGED <<cmstore, cmu, cmfatal, notMc>>

\* SaveSkill of a Skill the caller made, without Provider: m.store.Put
McSaveSkillBegin(t) ==
    /\ McCanBegin(t)
    /\ cmstore' = TRUE
    /\ cmthr' = [cmthr EXCEPT ![t] = [AtRest EXCEPT !.pc = "save", !.op = "SaveSkill",
                                                   !.skill = [id |-> cmlog.objs + 1,
                                                              provider |-> "nil"]]]
    /\ cmlog' = [cmlog EXCEPT !.ops = @ + 1, !.objs = @ + 1, !.others = TRUE,
                              !.registered = TRUE]
    /\ UNCHANGED <<cm, cmu, cmfatal, notMc>>

\* SaveSkill: m.mu.Lock(); m.cache[skill.Metadata.Name] = skill; m.mu.Unlock()
McSaveSkillCache(t) ==
    /\ ~cmfatal
    /\ cmthr[t].pc = "save"
    /\ cmu = 0
    /\ cm' = [cm EXCEPT !.cache = cmthr[t].skill]
    /\ cmthr' = McReturn(t, "SaveSkill", NoObject, "nil")
    /\ UNCHANGED <<cmstore, cmu, cmlog, cmfatal, notMc>>

\* DeleteSkill: m.store.Delete
McDeleteSkillBegin(t) ==
    /\ McCanBegin(t)
    /\ cmstore' = FALSE
    /\ cmthr' = IF cmstore
                THEN [cmthr EXCEPT ![t] = [AtRest EXCEPT !.pc = "delete",
                                                        !.op = "DeleteSkill"]]
                ELSE McReturn(t, "DeleteSkill", NoObject, "failed to delete skill")
    /\ cmlog' = [cmlog EXCEPT !.ops = @ + 1, !.others = TRUE]
    /\ UNCHANGED <<cm, cmu, cmfatal, notMc>>

\* DeleteSkill: m.mu.Lock(); delete(m.cache, name); m.mu.Unlock()
McDeleteSkillCache(t) ==
    /\ ~cmfatal
    /\ cmthr[t].pc = "delete"
    /\ cmu = 0
    /\ cm' = [cm EXCEPT !.cache = NoObject]
    /\ cmthr' = McReturn(t, "DeleteSkill", NoObject, "nil")
    /\ UNCHANGED <<cmstore, cmu, cmlog, cmfatal, notMc>>

\* ClearCache
McClearCache(t) ==
    /\ McCanBegin(t)
    /\ cmu = 0
    /\ cm' = [cm EXCEPT !.cache = NoObject]
    /\ cmthr' = McReturn(t, "ClearCache", NoObject, "nil")
    /\ cmlog' = [cmlog EXCEPT !.ops = @ + 1, !.others = TRUE]
    /\ UNCHANGED <<cmstore, cmu, cmfatal, notMc>>

\* SetResourceProvider: m.mu.Lock(); m.providers[skillName] = provider, entered
McSetProviderBegin(t, p) ==
    /\ McCanBegin(t)
    /\ cmu = 0
    /\ cmu' = t
    /\ cmthr' = [cmthr EXCEPT ![t] = [AtRest EXCEPT !.pc = "setting",
                                                   !.op = "SetResourceProvider",
                                                   !.p = p]]
    /\ cmlog' = [cmlog EXCEPT !.ops = @ + 1, !.others = TRUE]
    /\ UNCHANGED <<cm, cmstore, cmfatal, notMc>>

\* SetResourceProvider: the write of m.providers completed; if skill, ok :=
\* m.cache[skillName]; ok { skill.Provider = provider }; m.mu.Unlock()
McSetProviderEnd(t) ==
    /\ ~cmfatal
    /\ cmthr[t].pc = "setting"
    /\ cm' = [provider |-> cmthr[t].p,
              cache |-> IF cm.cache # NoObject
                        THEN [cm.cache EXCEPT !.provider = cmthr[t].p]
                        ELSE cm.cache]
    /\ cmu' = 0
    /\ cmthr' = McReturn(t, "SetResourceProvider", NoObject, "nil")
    /\ UNCHANGED <<cmstore, cmlog, cmfatal, notMc>>

McNext ==
    \/ \E t \in Threads : McGetSkillBegin(t)
    \/ \E t \in Threads : McReloadSkillBegin(t)
    \/ \E t \in Threads : McLoad(t)
    \/ \E t \in Threads, o \in {"ok", "fatal"}, seen \in Providers \cup {"unset"} :
          McProvider(t, o, seen)
    \/ \E t \in Threads : McCache(t)
    \/ \E t \in Threads : McRegisterSkill(t)
    \/ \E t \in Threads : McSaveSkillBegin(t)
    \/ \E t \in Threads : McSaveSkillCache(t)
    \/ \E t \in Threads : McDeleteSkillBegin(t)
    \/ \E t \in Threads : McDeleteSkillCache(t)
    \/ \E t \in Threads : McClearCache(t)
    \/ \E t \in Threads, p \in Providers : McSetProviderBegin(t, p)
    \/ \E t \in Threads : McSetProviderEnd(t)

(***************************************************************************)
(* Properties of the SkillManager under concurrent callers                 *)
(***************************************************************************)
\* no operation of the manager is in progress
McQuiet == \A t \in Threads : cmthr[t].pc = "rest"

\* the cached skill, if there is one and a provider is configured for its
\* name, has that provider
McProviderAttached ==
    (cm.cache # NoObject /\ cm.provider # "unset") => cm.cache.provider = cm.provider

\* C37: in every state in which no operation of the manager is in
\* progress, the cached skill has the provider configured for its name, if
\* one is configured.
C37_CachedHaveProvider == McQuiet => McProviderAttached

\* the same for the runs without RegisterSkill and SaveSkill
C37_WithoutRegister == (McQuiet /\ ~cmlog.registered) => McProviderAttached

\* C38: when only GetSkill has been called, for a name not cached at the
\* start, and all calls have returned, every call has returned the object
\* that the cache holds.
C38_OneObject ==
    (McQuiet /\ ~cmlog.others /\ ~cmfatal) =>
      \A t \in Threads :
        (cmthr[t].op = "GetSkill" /\ cmthr[t].err = "nil") => cmthr[t].skill = cm.cache

\* in these runs the cache holds the object one of the calls returned, and
\* every call has returned a copy the store made
C38_CacheHoldsOneOfThem ==
    (McQuiet /\ ~cmlog.others /\ cm.cache # NoObject) =>
      /\ cm.cache.id \in cmlog.got
      /\ \A t \in Threads :
           (cmthr[t].op = "GetSkill" /\ cmthr[t].err = "nil")
             => cmthr[t].skill.id \in 1 .. cmlog.objs

(***************************************************************************)
(* A Skill's parse cache.  CreateSkill applies its options in the order    *)
(* they are written; the Skill it returns is then asked for its tags.      *)
(* parsedTags and parsed are the two unexported fields of schema.Skill.    *)
(***************************************************************************)
MaxOptions == 3

\* the bodies an option is given: none, plain text, and one tag of two kinds
OptionBodies ==
    {<<>>, <<"a">>, EmbedScript(NameA), EmbedReference(NameB)}

\* the Skill CreateSkill makes before any option: parsed is the zero value
NewParseSkill ==
    [Body |-> <<>>, parsedTags |-> NilSlice, parsed |-> FALSE]

\* (*Skill).ParseXMLTags: extract from the current Body and mark as parsed
SkillParseXMLTags(s) ==
    [s EXCEPT !.parsedTags = ParseXMLTags(s.Body), !.parsed = TRUE]

\* (*Skill).GetParsedTags: extract only when the cache is not marked
SkillGetParsedTags(s) ==
    LET after == IF ~s.parsed THEN SkillParseXMLTags(s) ELSE s IN
    [skill |-> after, tags |-> after.parsedTags]

\* the option WithBody makes
OptWithBody(s, body) == [s EXCEPT !.Body = body]

\* the option WithAutoParsedBody makes
OptWithAutoParsedBody(s, body) ==
    SkillParseXMLTags([s EXCEPT !.Body = body])

NoParseCall == [op |-> "none", tags |-> NilSlice]

ParseIdle ==
    /\ pskill = [skill |-> NewParseSkill, opts |-> 0, built |-> TRUE]
    /\ parseRet = NoParseCall

\* CreateSkill makes the Skill; its options follow
PcCreateSkill ==
    /\ pskill.built
    /\ pskill' = [skill |-> NewParseSkill, opts |-> 0, built |-> FALSE]
    /\ parseRet' = NoParseCall
    /\ UNCHANGED notParse

\* the next option of the list is a WithBody
PcWithBody(body) ==
    /\ ~pskill.built
    /\ pskill.opts < MaxOptions
    /\ pskill' = [pskill EXCEPT !.skill = OptWithBody(@, body), !.opts = @ + 1]
    /\ parseRet' = [op |-> "WithBody", tags |-> NilSlice]
    /\ UNCHANGED notParse

\* the next option of the list is a WithAutoParsedBody
PcWithAutoParsedBody(body) ==
    /\ ~pskill.built
    /\ pskill.opts < MaxOptions
    /\ pskill' = [pskill EXCEPT !.skill = OptWithAutoParsedBody(@, body),
                                !.opts = @ + 1]
    /\ parseRet' = [op |-> "WithAutoParsedBody", tags |-> NilSlice]
    /\ UNCHANGED notParse

\* CreateSkill returns the Skill
PcReturn ==
    /\ ~pskill.built
    /\ pskill' = [pskill EXCEPT !.built = TRUE]
    /\ parseRet' = [op |-> "CreateSkill", tags |-> NilSlice]
    /\ UNCHANGED notParse

PcParseXMLTags ==
    /\ pskill.built
    /\ pskill' = [pskill EXCEPT !.skill = SkillParseXMLTags(@)]
    /\ parseRet' = [op |-> "ParseXMLTags", tags |-> NilSlice]
    /\ UNCHANGED notParse

PcGetParsedTags ==
    /\ pskill.built
    /\ LET r == SkillGetParsedTags(pskill.skill) IN
         /\ pskill' = [pskill EXCEPT !.skill = r.skill]
         /\ parseRet' = [op |-> "GetParsedTags", tags |-> r.tags]
    /\ UNCHANGED notParse

ParseNext ==
    \/ PcCreateSkill
    \/ \E body \in OptionBodies : PcWithBody(body)
    \/ \E body \in OptionBodies : PcWithAutoParsedBody(body)
    \/ PcReturn
    \/ PcParseXMLTags
    \/ PcGetParsedTags

\* C39: whenever a Skill's parse cache is marked as parsed, GetParsedTags
\* returns exactly the tags that extraction yields for the Skill's current
\* body, in every state reached by WithBody and WithAutoParsedBody in any
\* order and any number of ParseXMLTags and GetParsedTags calls
C39_ParsedMeansCurrent ==
    pskill.skill.parsed =>
        SkillGetParsedTags(pskill.skill).tags = ParseXMLTags(pskill.skill.Body)

\* what holds instead: a cache that is marked holds the tags of the body
\* of the last WithAutoParsedBody or ParseXMLTags, and GetParsedTags
\* returns the current body's tags for a Skill made without
\* WithAutoParsedBody and for one whose ParseXMLTags was just called
C39_CurrentAfterParse ==
    /\ parseRet.op \in {"WithAutoParsedBody", "ParseXMLTags"} =>
         /\ pskill.skill.parsed
         /\ SkillGetParsedTags(pskill.skill).tags = ParseXMLTags(pskill.skill.Body)
    /\ ~pskill.skill.parsed =>
         SkillGetParsedTags(pskill.skill).tags = ParseXMLTags(pskill.skill.Body)

\* CreateSkill(WithAutoParsedBody(<script>a</script>), WithBody(a)) has
\* returned and GetParsedTags answered with the script tag of the old body
C39_StaleTags ==
    /\ pskill.built
    /\ parseRet.op = "GetParsedTags"
    /\ pskill.skill.Body = <<"a">>
    /\ parseRet.tags = ParseXMLTags(EmbedScript(NameA))
    /\ ParseXMLTags(pskill.skill.Body) = NilSlice

(***************************************************************************)
(* Specifications                                                          *)
(***************************************************************************)
Init == SkillIdle /\ LazyIdle /\ CompIdle /\ CacheIdle /\ MarkIdle /\ RefIdle
        /\ CacheConcIdle /\ RunIdle /\ RemIdle /\ FacIdle
        /\ MgrIdle /\ StoIdle /\ CpIdle /\ HttpIdle /\ McIdle /\ ParseIdle

\* the Skill facade over an inline provider
Next == SkillNext
Spec == Init /\ [][Next]_vars

\* sequential accesses of a LazyLoadingProvider
SpecLazy == Init /\ [][LazyNext]_vars

\* concurrent first accesses of a LazyLoadingProvider
SpecLazyConc == Init /\ [][LazyConcNext]_vars

\* a CompositeProvider
SpecComp == Init /\ [][CompNext]_vars

\* a CachingProvider, used sequentially
SpecCache == Init /\ [][CacheNext]_vars

\* AutoExecute and Execute of a Skill with inline scripts
SpecExec == Init /\ [][SkillExecNext]_vars

\* concurrent lookups of a CachingProvider
SpecCacheConc == Init /\ [][CacheConcNext]_vars

\* ReadReference of a Skill over an inline provider
SpecRef == Init /\ [][RefNext]_vars

\* the markup extractor over bodies of up to MaxPieces pieces
SpecMarkup == Init /\ [][MarkNext]_vars

\* Run of generic procedures over the input types and argument texts
SpecRun == Init /\ [][RunNext]_vars

\* a RemoteScript over its transport, and the default HTTP transport
SpecRemote == Init /\ [][RemNext]_vars

\* the operations on the Skills and lazy providers a caller can construct
SpecFacade == Init /\ [][FacNext]_vars

\* a SkillManager over a store, used sequentially
SpecManager == Init /\ [][MgrNext]_vars

\* concurrent Puts into a MemoryStore
SpecStoreConc == Init /\ [][StoNext]_vars

\* a MemoryStore and a caller that changes the skills it puts and gets
SpecStoreCopy == Init /\ [][CpNext]_vars

\* a Call of the HTTP transport in time
SpecHTTP == Init /\ [][HttpNext]_vars /\ HttpFairness

\* a SkillManager used by concurrent callers
SpecManagerConc == Init /\ [][McNext]_vars

\* a Skill built by CreateSkill from its options, then asked for its tags
SpecParseCache == Init /\ [][ParseNext]_vars

====
